---- MODULE Spec2Model ----
(***************************************************************************)
(* Model of the request multiplexer of src/router.go: the namespace tree,  *)
(* the registration operations and the matcher (Router.Handler).           *)
(*                                                                         *)
(* A Go string is a sequence of one-character strings, so that Split,      *)
(* TrimPrefix, the validators and the compiled regular expressions are     *)
(* computed as the code computes them.  A Go map is a function with a      *)
(* finite domain.  A *routerNamespace is the index of its record in        *)
(* `nodes` (0 is the nil pointer).                                         *)
(***************************************************************************)
EXTENDS Integers, Sequences, FiniteSets, TLC

\* ------------------------------------------------------------------------
\* strings
\* ------------------------------------------------------------------------

\* \w of the regular expressions, restricted to the characters the inputs use
WordChars == {"a", "b", "x", "y", "i", "j", "s", "c", "1", "2", "_"}

IsWord(s) == Len(s) > 0 /\ \A k \in 1..Len(s) : s[k] \in WordChars

HasPrefix(s, pre) ==
    Len(pre) <= Len(s) /\ SubSeq(s, 1, Len(pre)) = pre

HasSuffix(s, suf) ==
    Len(suf) <= Len(s) /\ SubSeq(s, Len(s) - Len(suf) + 1, Len(s)) = suf

TrimPrefix(s, pre) ==
    IF HasPrefix(s, pre) THEN SubSeq(s, Len(pre) + 1, Len(s)) ELSE s

TrimSuffix(s, suf) ==
    IF HasSuffix(s, suf) THEN SubSeq(s, 1, Len(s) - Len(suf)) ELSE s

Contains(s, c) == \E k \in 1..Len(s) : s[k] = c

\* index of the first / last occurrence of character c in s, 0 when absent
IndexOf(s, c) ==
    IF Contains(s, c) THEN CHOOSE k \in 1..Len(s) : s[k] = c /\ \A l \in 1..(k-1) : s[l] # c
    ELSE 0

LastIndexOf(s, c) ==
    IF Contains(s, c) THEN CHOOSE k \in 1..Len(s) : s[k] = c /\ \A l \in (k+1)..Len(s) : s[l] # c
    ELSE 0

\* strings.Split(s, c): always at least one element
RECURSIVE Split(_, _)
Split(s, c) ==
    LET k == IndexOf(s, c)
    IN  IF k = 0 THEN << s >>
        ELSE << SubSeq(s, 1, k - 1) >> \o Split(SubSeq(s, k + 1, Len(s)), c)

\* strings.Join(parts, c)
RECURSIVE Join(_, _)
Join(parts, c) ==
    IF Len(parts) = 0 THEN << >>
    ELSE IF Len(parts) = 1 THEN parts[1]
    ELSE parts[1] \o << c >> \o Join(Tail(parts), c)

\* ------------------------------------------------------------------------
\* pattern and namespace syntax (router.go 150-169)
\* ------------------------------------------------------------------------

\* (?:\w+\.)+\w+ : words joined by dots, at least two of them
IsHostName(s) ==
    LET parts == Split(s, ".")
    IN  Len(parts) >= 2 /\ \A k \in 1..Len(parts) : IsWord(parts[k])

\* (?:\w+|(?:\{\w+\}))+ : a non-empty run of word characters and {word} groups
RECURSIVE IsSegmentRun(_)
IsSegmentRun(s) ==
    IF Len(s) = 0 THEN TRUE
    ELSE IF s[1] \in WordChars THEN IsSegmentRun(Tail(s))
    ELSE IF s[1] = "{" THEN
        LET close == IndexOf(s, "}")
        IN  /\ close > 2
            /\ IsWord(SubSeq(s, 2, close - 1))
            /\ IsSegmentRun(SubSeq(s, close + 1, Len(s)))
    ELSE FALSE

IsSegment(s) == Len(s) > 0 /\ IsSegmentRun(s)

\* \w*(?:\.\w+)* : the optional tail after the last slash
IsTail(s) ==
    LET parts == Split(s, ".")
    IN  /\ (Len(parts[1]) = 0 \/ IsWord(parts[1]))
        /\ \A k \in 2..Len(parts) : IsWord(parts[k])

\* the path half of patternValidator: (/segment)* then an optional /tail
IsPatternPath(s) ==
    \/ Len(s) = 0
    \/ /\ s[1] = "/"
       /\ LET pieces == Tail(Split(s, "/"))
          IN  /\ \A k \in 1..(Len(pieces) - 1) : IsSegment(pieces[k])
              /\ (IsSegment(pieces[Len(pieces)]) \/ IsTail(pieces[Len(pieces)]))

\* the path half of namespaceValidator: (/?segment)* then an optional /tail;
\* a segment run cannot hold a slash, so the optional slashes split the runs
IsNamespacePath(s) ==
    \/ Len(s) = 0
    \/ LET pieces == Split(s, "/")
           first  == IF Len(pieces[1]) = 0 THEN 2 ELSE 1
       IN  /\ \A k \in first..(Len(pieces) - 1) : IsSegment(pieces[k])
           /\ Len(pieces) >= first
           /\ \/ IsSegment(pieces[Len(pieces)])
              \/ (Len(pieces) > 1 /\ IsTail(pieces[Len(pieces)]))

patternValidator(p) ==
    \E k \in 0..Len(p) :
        /\ (k = 0 \/ IsHostName(SubSeq(p, 1, k)))
        /\ IsPatternPath(SubSeq(p, k + 1, Len(p)))

namespaceValidator(p) ==
    \E k \in 0..Len(p) :
        /\ (k = 0 \/ IsHostName(SubSeq(p, 1, k)))
        /\ IsNamespacePath(SubSeq(p, k + 1, Len(p)))

isValidPattern(p) == Len(p) > 0 /\ patternValidator(p)

isValidNamespace(p) == Len(p) > 0 /\ p[1] # "/" /\ namespaceValidator(p)

\* ------------------------------------------------------------------------
\* paramsSeeker and parseNamespace (router.go 203-226)
\* ------------------------------------------------------------------------

\* The one match of \{[^\/]+\} inside a slash-free piece: the expression is
\* greedy, so it runs from the first "{" to the last "}" of the piece, and it
\* needs one character between them.  << 0, 0 >> when there is no match.
ParamSpan(piece) ==
    LET lo == IndexOf(piece, "{")
        hi == LastIndexOf(piece, "}")
    IN  IF lo > 0 /\ hi >= lo + 2 THEN << lo, hi >> ELSE << 0, 0 >>

\* paramsSeeker.ReplaceAllStringFunc(piece, _ -> "{}")
GeneralizePiece(piece) ==
    LET sp == ParamSpan(piece)
    IN  IF sp[1] = 0 THEN piece
        ELSE SubSeq(piece, 1, sp[1] - 1) \o << "{", "}" >> \o SubSeq(piece, sp[2] + 1, Len(piece))

\* the matches of paramsSeeker in s, left to right, braces included
RECURSIVE PieceParams(_)
PieceParams(pieces) ==
    IF Len(pieces) = 0 THEN << >>
    ELSE LET sp == ParamSpan(pieces[1])
         IN  (IF sp[1] = 0 THEN << >> ELSE << SubSeq(pieces[1], sp[1], sp[2]) >>)
             \o PieceParams(Tail(pieces))

seekParams(s) == PieceParams(Split(s, "/"))

parseNamespaceName(name) ==
    LET trimmed == TrimSuffix(TrimPrefix(name, << "/" >>), << "/" >>)
        pieces  == Split(trimmed, "/")
    IN  Join([k \in 1..Len(pieces) |-> GeneralizePiece(pieces[k])], "/")

parseNamespaceParams(name) ==
    seekParams(TrimSuffix(TrimPrefix(name, << "/" >>), << "/" >>))

\* ------------------------------------------------------------------------
\* compiled regular expressions (router.go 125-148, 557)
\* ------------------------------------------------------------------------
\* A compiled expression is anchored at both ends and is a sequence of items:
\*   [t |-> "lit", c |-> ch]     the character ch (an escaped "/" or "." too)
\*   [t |-> "grp", name |-> n]   (?P<n>[^/]+)
\*   [t |-> "opt", c |-> ch]     ch?

Lits(s) == [k \in 1..Len(s) |-> [t |-> "lit", c |-> s[k]]]

\* one slash-free piece of the pattern: what is outside the paramsSeeker match
\* stays literal, the match m becomes a group named m[1:len(m)-1]
CompilePiece(piece) ==
    LET sp == ParamSpan(piece)
    IN  IF sp[1] = 0 THEN Lits(piece)
        ELSE Lits(SubSeq(piece, 1, sp[1] - 1))
             \o << [t |-> "grp", name |-> SubSeq(piece, sp[1] + 1, sp[2] - 1)] >>
             \o Lits(SubSeq(piece, sp[2] + 1, Len(piece)))

RECURSIVE CompilePieces(_)
CompilePieces(pieces) ==
    IF Len(pieces) = 1 THEN CompilePiece(pieces[1])
    ELSE CompilePiece(pieces[1]) \o << [t |-> "lit", c |-> "/"] >> \o CompilePieces(Tail(pieces))

createRegExp(pattern) == CompilePieces(Split(pattern, "/"))

\* regexp.MustCompile accepts the built text (it panics otherwise): every group
\* name is a word and every literal stands for itself once "/" and "." are escaped
regExpCompiles(pattern) ==
    LET re == createRegExp(pattern)
    IN  \A k \in 1..Len(re) :
            \/ re[k].t = "grp" /\ IsWord(re[k].name)
            \/ re[k].t = "lit" /\ re[k].c \in WordChars \cup {"/", "."}

\* ^\/?$
rootRegExp == << [t |-> "opt", c |-> "/"] >>

NoMatch == [ok |-> FALSE, caps |-> << >>]

\* length of the longest slash-free prefix of s
RECURSIVE SlashFree(_)
SlashFree(s) ==
    IF Len(s) = 0 \/ s[1] = "/" THEN 0 ELSE 1 + SlashFree(Tail(s))

\* FindStringSubmatch: whether the anchored expression matches s and the
\* captured texts in group order.  [^/]+ is greedy: the longest capture that
\* lets the rest match.
RECURSIVE FindSubmatch(_, _)
FindSubmatch(re, s) ==
    IF Len(re) = 0 THEN [ok |-> Len(s) = 0, caps |-> << >>]
    ELSE IF re[1].t = "lit" THEN
        IF Len(s) > 0 /\ s[1] = re[1].c THEN FindSubmatch(Tail(re), Tail(s)) ELSE NoMatch
    ELSE IF re[1].t = "opt" THEN
        IF Len(s) > 0 /\ s[1] = re[1].c /\ FindSubmatch(Tail(re), Tail(s)).ok
        THEN FindSubmatch(Tail(re), Tail(s))
        ELSE FindSubmatch(Tail(re), s)
    ELSE
        LET ok == {k \in 1..SlashFree(s) :
                      FindSubmatch(Tail(re), SubSeq(s, k + 1, Len(s))).ok}
        IN  IF ok = {} THEN NoMatch
            ELSE LET k    == CHOOSE m \in ok : \A o \in ok : o <= m
                     rest == FindSubmatch(Tail(re), SubSeq(s, k + 1, Len(s)))
                 IN  [ok |-> TRUE, caps |-> << SubSeq(s, 1, k) >> \o rest.caps]

MatchString(re, s) == FindSubmatch(re, s).ok

\* SubexpNames without element 0
RECURSIVE SubexpNames(_)
SubexpNames(re) ==
    IF Len(re) = 0 THEN << >>
    ELSE (IF re[1].t = "grp" THEN << re[1].name >> ELSE << >>) \o SubexpNames(Tail(re))

\* ------------------------------------------------------------------------
\* the namespace tree (router.go 171-201, 228-232, 659-704, 808-816)
\* ------------------------------------------------------------------------

MethodAll    == "ALL"
MethodGet    == "GET"
MethodPost   == "POST"
MethodConnect == "CONNECT"

PanicMsgInvalidPattern      == "router: invalid pattern"
PanicMsgEmptyHandler        == "router: nil handler"
PanicMsgEndpointDuplication == "router: endpoint duplication"
PanicRegExp                 == "regexp: Compile: error parsing regexp"
PanicIndex                  == "runtime error: index out of range"
NoPanic                     == "none"

Slash == << "/" >>
Brackets == << "{", "}" >>

EmptyMap == [k \in {} |-> 0]

MapPut(f, key, v) == [k \in DOMAIN f \cup {key} |-> IF k = key THEN v ELSE f[k]]

\* a nil *routerEntry, and the zero handler
NilEntry == [nil |-> TRUE, pattern |-> << >>, re |-> << >>, mh |-> EmptyMap]
NilHandler == 0
NilNode == 0

routerEntry(pattern, re, method, handler) ==
    [nil |-> FALSE, pattern |-> pattern, re |-> re, mh |-> MapPut(EmptyMap, method, handler)]

routerNamespace(name, parent) ==
    [name |-> name, p |-> parent, ns |-> EmptyMap, mws |-> << >>,
     es |-> NilEntry, eu |-> NilEntry]

\* the loop of closer: nd is the heap of nodes, ns the map of the current
\* level, n the node found so far, acc the keys not matched yet
RECURSIVE closerWalk(_, _, _, _, _, _)
closerWalk(nd, ns, n, path, acc, subnames) ==
    IF Len(subnames) = 0 THEN [n |-> n, path |-> path]
    ELSE LET before == acc
             acc1   == acc \o subnames[1]
         IN  IF acc1 \in DOMAIN ns
             THEN closerWalk(nd, nd[ns[acc1]].ns, ns[acc1],
                             path \o acc1 \o Slash, << >>, Tail(subnames))
             ELSE IF (before \o Brackets) \in DOMAIN ns
             THEN closerWalk(nd, nd[ns[before \o Brackets]].ns, ns[before \o Brackets],
                             path \o acc1 \o Brackets \o Slash, << >>, Tail(subnames))
             ELSE closerWalk(nd, ns, n, path, acc1 \o Slash, Tail(subnames))

closer(nd, ns, name) ==
    LET r == closerWalk(nd, ns, NilNode, << >>, << >>, Split(name, "/"))
    IN  [n    |-> r.n,
         path |-> IF r.path # << >> /\ r.path # name
                  THEN SubSeq(r.path, 1, Len(r.path) - 1) ELSE r.path]

\* The insertion of Router.namespace and routerNamespace.namespace, written as
\* a chain of operators, one per step, each receiving what the steps before it
\* computed.  The result is the heap, the router's map and the node returned.

\* variant of the loop of lines 690-699 that moves no child below the new node
movedKeysNone(level, rest) == {}

\* lines 690-699: the keys of the level that start with rest+"/"
movedKeys(level, rest) == {k \in DOMAIN level : TrimPrefix(k, rest \o Slash) # k}

\* lines 695, 701: the level without the moved children and with the new node
keptMap(level, moved, rest, nn) ==
    [k \in (DOMAIN level \ moved) \cup {rest} |-> IF k = rest THEN nn ELSE level[k]]

\* line 698: the moved children below the new node, under the rest of their key
belowMap(level, moved, rest) ==
    [l \in {TrimPrefix(k, rest \o Slash) : k \in moved} |->
        level[CHOOSE k \in moved : TrimPrefix(k, rest \o Slash) = l]]

\* lines 673-703 with the maps computed
attachMaps(nd, rootns, owner, rest, level, moved, nn, kept, below) ==
    [nd |-> [i \in 1..nn |->
                IF i = nn THEN [routerNamespace(rest, owner) EXCEPT !.ns = below]
                ELSE IF \E k \in moved : level[k] = i
                THEN [nd[i] EXCEPT
                         !.name = TrimPrefix(CHOOSE k \in moved : level[k] = i,
                                             rest \o Slash),
                         !.p = nn]
                ELSE IF i = owner THEN [nd[i] EXCEPT !.ns = kept]
                ELSE nd[i]],
     ns |-> IF owner = NilNode THEN kept ELSE rootns,
     n  |-> nn]

attachMoved(nd, rootns, owner, rest, level, moved, nn) ==
    attachMaps(nd, rootns, owner, rest, level, moved, nn,
               keptMap(level, moved, rest, nn), belowMap(level, moved, rest))

\* lines 679-688: the level that receives the new node
attachNode(nd, rootns, owner, rest, level) ==
    attachMoved(nd, rootns, owner, rest, level, movedKeys(level, rest), Len(nd) + 1)

attachBelow(nd, rootns, owner, rest) ==
    attachNode(nd, rootns, owner, rest, IF owner = NilNode THEN rootns ELSE nd[owner].ns)

\* lines 665-670: found is the result of closer
insertFound(nd, rootns, base, name, found) ==
    IF found.path = name THEN [nd |-> nd, ns |-> rootns, n |-> found.n]
    ELSE attachBelow(nd, rootns,
                     IF found.n = NilNode THEN base ELSE found.n,
                     TrimPrefix(name, found.path \o Slash))

\* base is the node whose map is searched, NilNode for the router's map
insertNamespace(nd, rootns, base, name) ==
    insertFound(nd, rootns, base, name,
                closer(nd, IF base = NilNode THEN rootns ELSE nd[base].ns, name))

\* Router.namespace
Router_namespace(nd, rootns, name) == insertNamespace(nd, rootns, NilNode, name)

\* routerNamespace.path
RECURSIVE nodePath(_, _)
nodePath(nd, n) ==
    IF n = NilNode THEN << >>
    ELSE nodePath(nd, nd[n].p) \o Slash \o nd[n].name

\* ------------------------------------------------------------------------
\* registration (router.go 536-594)
\* ------------------------------------------------------------------------
\* A router value is [ns, nodes, e, host]; a call returns the router it
\* leaves behind and the panic it raised (NoPanic when it returned).

Outcome(ro, fault) == [ro |-> ro, fault |-> fault]

\* the node n of router ro with its slot (es when slashed, eu otherwise) set
putEntry(ro, n, slashed, entry) ==
    IF slashed THEN [ro EXCEPT !.nodes[n].es = entry]
    ELSE [ro EXCEPT !.nodes[n].eu = entry]

\* variant of the slot update in which ALL collides with every method, as a
\* duplicate check on the whole entry would make it
storeHeldAllCollides(ro, n, slashed, held, pattern, handler, method) ==
    IF ~held.nil
    THEN IF method \in DOMAIN held.mh \/ method = MethodAll \/ MethodAll \in DOMAIN held.mh
         THEN Outcome(ro, PanicMsgEndpointDuplication)
         ELSE Outcome(putEntry(ro, n, slashed,
                               [held EXCEPT !.mh = MapPut(held.mh, method, handler)]),
                      NoPanic)
    ELSE IF ~regExpCompiles(pattern)
         THEN Outcome(ro, PanicRegExp)
         ELSE Outcome(putEntry(ro, n, slashed,
                               routerEntry(pattern, createRegExp(pattern), method, handler)),
                      NoPanic)

\* lines 579-593: held is the entry the slot holds; an existing entry keeps its
\* pattern and expression and gains the method
storeHeld(ro, n, slashed, held, pattern, handler, method) ==
    IF ~held.nil
    THEN IF method \in DOMAIN held.mh
         THEN Outcome(ro, PanicMsgEndpointDuplication)
         ELSE Outcome(putEntry(ro, n, slashed,
                               [held EXCEPT !.mh = MapPut(held.mh, method, handler)]),
                      NoPanic)
    ELSE IF ~regExpCompiles(pattern)
         THEN Outcome(ro, PanicRegExp)
         ELSE Outcome(putEntry(ro, n, slashed,
                               routerEntry(pattern, createRegExp(pattern), method, handler)),
                      NoPanic)

\* lines 572-578: the slot is chosen by the trailing slash of the pattern
storeEntry(ro, n, slashed, pattern, handler, method) ==
    storeHeld(ro, n, slashed, IF slashed THEN ro.nodes[n].es ELSE ro.nodes[n].eu,
              pattern, handler, method)

\* lines 548-563: the root pattern
registerRoot(ro, pattern, handler, method) ==
    IF ~ro.e.nil /\ method \in DOMAIN ro.e.mh
    THEN Outcome(ro, PanicMsgEndpointDuplication)
    ELSE Outcome([ro EXCEPT !.e = routerEntry(pattern, rootRegExp, method, handler)], NoPanic)

\* lines 565-593: ins is the result of Router.namespace
registerAt(ro, ins, pattern, handler, method) ==
    storeEntry([ro EXCEPT !.host = ro.host \/ pattern[1] # "/",
                          !.nodes = ins.nd,
                          !.ns = ins.ns],
               ins.n, pattern[Len(pattern)] = "/", pattern, handler, method)

\* Router.register
register(ro, pattern, handler, method) ==
    IF ~isValidPattern(pattern) THEN Outcome(ro, PanicMsgInvalidPattern)
    ELSE IF handler = NilHandler THEN Outcome(ro, PanicMsgEmptyHandler)
    ELSE IF pattern = Slash THEN registerRoot(ro, pattern, handler, method)
    ELSE registerAt(ro, Router_namespace(ro.nodes, ro.ns, parseNamespaceName(pattern)),
                    pattern, handler, method)

\* ------------------------------------------------------------------------
\* the matcher (router.go 93-123, 369-534)
\* ------------------------------------------------------------------------

\* path.Clean of a rooted path: empty and "." elements dropped, ".." drops the
\* element before it
RECURSIVE cleanElements(_, _)
cleanElements(elems, out) ==
    IF Len(elems) = 0 THEN out
    ELSE IF elems[1] = << >> \/ elems[1] = << "." >> THEN cleanElements(Tail(elems), out)
    ELSE IF elems[1] = << ".", "." >>
    THEN cleanElements(Tail(elems),
                       IF Len(out) = 0 THEN out ELSE SubSeq(out, 1, Len(out) - 1))
    ELSE cleanElements(Tail(elems), Append(out, elems[1]))

pathClean(p) == Slash \o Join(cleanElements(Split(p, "/"), << >>), "/")

cleanPath(p) ==
    IF Len(p) = 0 THEN Slash
    ELSE LET rooted == IF p[1] # "/" THEN Slash \o p ELSE p
             np     == pathClean(rooted)
         IN  IF rooted[Len(rooted)] = "/" /\ np # Slash
             THEN (IF Len(rooted) = Len(np) + 1 /\ HasPrefix(rooted, np)
                   THEN rooted ELSE np \o Slash)
             ELSE np

\* variant of stripHostPort that leaves the port in the host
stripHostPortKept(host) == host

\* net.SplitHostPort for hosts without brackets: the text before the last
\* colon, which must hold no other colon; stripHostPort assigns the result to
\* host also when SplitHostPort fails and returns ""
stripHostPort(host) ==
    IF ~Contains(host, ":") THEN host
    ELSE LET k == LastIndexOf(host, ":")
         IN  IF Contains(SubSeq(host, 1, k - 1), ":") THEN << >>
             ELSE SubSeq(host, 1, k - 1)

\* Router.match
match(ro, path) ==
    IF path = Slash THEN ro.e
    ELSE LET n == closer(ro.nodes, ro.ns, TrimPrefix(path, Slash)).n
         IN  IF n = NilNode THEN NilEntry
             ELSE IF ~ro.nodes[n].eu.nil /\ MatchString(ro.nodes[n].eu.re, path)
             THEN ro.nodes[n].eu
             ELSE IF ~ro.nodes[n].es.nil /\ MatchString(ro.nodes[n].es.re, path)
             THEN ro.nodes[n].es
             ELSE NilEntry

\* variant of the method selection in which the handler of ALL comes first
selectHandlerAllFirst(e, method) ==
    IF MethodAll \in DOMAIN e.mh THEN e.mh[MethodAll]
    ELSE IF method \in DOMAIN e.mh THEN e.mh[method]
    ELSE NilHandler

\* lines 422-429: the handler of entry e for the method, NilHandler when none
selectHandler(e, method) ==
    IF method \in DOMAIN e.mh THEN e.mh[method]
    ELSE IF MethodAll \in DOMAIN e.mh THEN e.mh[MethodAll]
    ELSE NilHandler

\* variant of the capture in which every parameter holds the whole match
captureParamsWhole(re, path) ==
    LET names == SubexpNames(re)
        found == FindSubmatch(re, path)
    IN  [tag \in {names[k] : k \in 1..Len(names)} |-> path]

\* lines 431-438: the params of the named groups of re on path
captureParams(re, path) ==
    LET names == SubexpNames(re)
        found == FindSubmatch(re, path)
    IN  [tag \in {names[k] : k \in 1..Len(names)} |->
            found.caps[CHOOSE k \in 1..Len(names) :
                          names[k] = tag /\ \A l \in (k+1)..Len(names) : names[l] # tag]]

\* results of Router.handler and Router.Handler
NoHit ==
    [kind |-> "none", h |-> NilHandler, p |-> << >>, params |-> EmptyMap, nilparams |-> TRUE,
     url |-> << >>]
Panicked == [NoHit EXCEPT !.kind = "panic"]
NotFound == [NoHit EXCEPT !.kind = "notfound"]
Redirect(url) == [NoHit EXCEPT !.kind = "redirect", !.p = url]

\* lines 408-416: the entry of host+path when a host pattern was registered
\* and it matches, the entry of the path otherwise
hostEntry(ro, host, path) ==
    IF ro.host THEN match(ro, host \o path) ELSE NilEntry

handlerEntry(ro, byHost, path) ==
    IF byHost.nil THEN match(ro, path) ELSE byHost

\* variant of lines 418-439 without the test of a nil handler
handlerOfAny(en, h, path) ==
    IF en.nil THEN NoHit
    ELSE IF SubexpNames(en.re) # << >> /\ ~MatchString(en.re, path) THEN Panicked
    ELSE [NoHit EXCEPT !.kind = "handler", !.h = h, !.p = en.pattern,
                       !.params = captureParams(en.re, path), !.nilparams = FALSE]

\* lines 418-439: indexing the nil result of FindStringSubmatch panics
handlerOf(en, h, path) ==
    IF en.nil THEN NoHit
    ELSE IF h = NilHandler THEN NoHit
    ELSE IF SubexpNames(en.re) # << >> /\ ~MatchString(en.re, path) THEN Panicked
    ELSE [NoHit EXCEPT !.kind = "handler", !.h = h, !.p = en.pattern,
                       !.params = captureParams(en.re, path), !.nilparams = FALSE]

handlerFor(en, path, method) == handlerOf(en, selectHandler(en, method), path)

\* Router.handler
handler(ro, host, path, method) ==
    handlerFor(handlerEntry(ro, hostEntry(ro, host, path), path), path, method)

\* lines 452-471 and 487-506: the probes of the two redirect tests; slot picks
\* the entry of the node and ps is the path with the slash added or removed
redirectProbe(ro, n, slashed, ps, method) ==
    IF n = NilNode THEN FALSE
    ELSE LET entry == IF slashed THEN ro.nodes[n].es ELSE ro.nodes[n].eu
         IN  /\ ~entry.nil
             /\ (method \in DOMAIN entry.mh \/ MethodAll \in DOMAIN entry.mh)
             /\ MatchString(entry.re, ps)

\* one turn of the loop over << path, host+path >>
probeOk(ro, slashed, ps, method) ==
    redirectProbe(ro, closer(ro.nodes, ro.ns, parseNamespaceName(ps)).n, slashed, ps, method)

\* the first probe that succeeds, as (newPath, ok)
shouldRedirect(ro, slashed, probes, method) ==
    IF probeOk(ro, slashed, probes[1], method) THEN [ok |-> TRUE, path |-> probes[1]]
    ELSE IF probeOk(ro, slashed, probes[2], method) THEN [ok |-> TRUE, path |-> probes[2]]
    ELSE [ok |-> FALSE, path |-> << >>]

shouldRedirectToSlashPath(ro, host, path, method) ==
    IF path[Len(path)] = "/" THEN [ok |-> FALSE, path |-> << >>]
    ELSE shouldRedirect(ro, TRUE, << path \o Slash, host \o path \o Slash >>, method)

shouldRedirectToUnslashPath(ro, host, path, method) ==
    IF path[Len(path)] # "/" THEN [ok |-> FALSE, path |-> << >>]
    ELSE shouldRedirect(ro, FALSE,
                        << SubSeq(path, 1, Len(path) - 1),
                           SubSeq(host \o path, 1, Len(host) + Len(path) - 1) >>, method)

\* lines 394-404: the two redirect tests in order, then not found
redirectOr(toSlash, toUnslash) ==
    IF toSlash.ok THEN Redirect(toSlash.path)
    ELSE IF toUnslash.ok THEN Redirect(toUnslash.path)
    ELSE NotFound

\* variant of lines 384-404 in which a hit is returned as it is, whatever the
\* path of the request was before cleaning
HandlerResultAsIs(ro, r, host, path, hit) ==
    IF hit.kind = "panic" THEN Panicked
    ELSE IF hit.kind = "handler" THEN hit
    ELSE IF Len(path) = 0 THEN Panicked
    ELSE redirectOr(shouldRedirectToSlashPath(ro, host, path, r.method),
                    shouldRedirectToUnslashPath(ro, host, path, r.method))

\* lines 384-404: hit is the result of Router.handler
HandlerResult(ro, r, host, path, hit) ==
    IF hit.kind = "panic" THEN Panicked
    ELSE IF hit.kind = "handler"
    THEN (IF path # Slash /\ path # r.path THEN Redirect(path) ELSE hit)
    ELSE IF Len(path) = 0 THEN Panicked
    ELSE redirectOr(shouldRedirectToSlashPath(ro, host, path, r.method),
                    shouldRedirectToUnslashPath(ro, host, path, r.method))

\* lines 371-382: the host and the path the lookup uses
HandlerAt(ro, r, host, path) ==
    HandlerResult(ro, r, host, path, handler(ro, host, path, r.method))

requestHost(r) == IF r.method = MethodConnect THEN r.host ELSE stripHostPort(r.host)

requestPath(r) == IF r.method = MethodConnect THEN r.path ELSE cleanPath(r.path)

\* url.URL{Path, RawQuery}.String() for the paths and queries of the requests
urlString(path, query) ==
    IF Len(query) = 0 THEN path ELSE path \o << "?" >> \o query

\* lines 387-388, 395-396, 400-401: the redirect handler is made for u.String()
redirectTo(res, query) ==
    IF res.kind = "redirect" THEN [res EXCEPT !.url = urlString(res.p, query)] ELSE res

\* Router.Handler for the request r = [method, host, path, query]
Handler(ro, r) == redirectTo(HandlerAt(ro, r, requestHost(r), requestPath(r)), r.query)

\* ------------------------------------------------------------------------
\* middlewares and dispatch (router.go 261-355, 718-806, 1071-1078)
\* ------------------------------------------------------------------------
\* A middleware is the number it was registered with.  What it does when it
\* is invoked is chosen at the invocation: it calls next(), it calls
\* next(err), it returns without calling next, or it panics.

DoesNext == "next"
DoesErr  == "err"
DoesHalt == "halt"
DoesPanic == "panic"

PanicMsgInvalidNamespace == "router: invalid namespace"
PanicNilNode == "nil pointer dereference"

\* line 798 and line 1077: n.mws = append(n.mws, mw)
appendMws(ro, n, mw) == [ro EXCEPT !.nodes[n].mws = Append(ro.nodes[n].mws, mw)]

\* lines 797-798 with the result of Router.namespace
useAt(ro, ins, mw) ==
    IF ins.n = NilNode THEN Outcome(ro, PanicNilNode)
    ELSE Outcome(appendMws([ro EXCEPT !.nodes = ins.nd, !.ns = ins.ns], ins.n, mw), NoPanic)

\* Router.Use(path, mw): the path goes to Router.namespace as it is given
addMiddlewareOnPath(ro, path, mw) ==
    useAt(ro, Router_namespace(ro.nodes, ro.ns, path), mw)

\* Router.Namespace(name).Use(mw)
namespaceUse(ro, name, mw) ==
    IF ~isValidNamespace(name) THEN Outcome(ro, PanicMsgInvalidNamespace)
    ELSE useAt(ro, Router_namespace(ro.nodes, ro.ns, parseNamespaceName(name)), mw)

\* A ServeHTTP call in flight.  pc is "idle" before the call, "select" while
\* the call is at the select of crossMiddlewaresLayer (line 297), "done" when
\* it returned and "panicked" when Router.Handler panicked.  level is the node
\* whose middlewares the layer runs (NilNode: the router's), path the rest of
\* the split pattern, token tells that iCh holds idx, errs are the errors
\* collected so far and log is what was invoked, in order.
\* cancelledAt is the length of the log when the context was cancelled with
\* the call waiting at the select, NotCancelled when that did not happen.
NotCancelled == -1

Idle ==
    [pc |-> "idle", r |-> << >>, res |-> NoHit, level |-> NilNode, path |-> << >>,
     idx |-> 0, token |-> FALSE, errs |-> << >>, cancelled |-> FALSE, log |-> << >>,
     cancelledAt |-> NotCancelled]

Event(ev, id, does, err) == [ev |-> ev, id |-> id, does |-> does, err |-> err]

\* the middlewares and the children of a layer
layerMws(gm, nd, level) == IF level = NilNode THEN gm ELSE nd[level].mws

layerNs(rootns, nd, level) == IF level = NilNode THEN rootns ELSE nd[level].ns

\* lines 272-282: the end of ServeHTTP, eh is Router.meh
finish(s, eh) ==
    [s EXCEPT !.pc = "done", !.token = FALSE,
              !.log = Append(s.log,
                             IF Len(s.errs) > 0
                             THEN (IF eh = NilHandler
                                   THEN Event("status500", 0, "", s.errs[1])
                                   ELSE Event("meh", eh, "", s.errs[1]))
                             ELSE Event(s.res.kind, s.res.h, "", 0))]

\* lines 289-295 and 337-346: a layer without middlewares is left at once; a
\* layer is left for the child named by the first element of the path, if
\* there is one, and else the walk ends; path[1:] of an empty path panics
RECURSIVE enterLayer(_, _, _, _, _, _, _)
RECURSIVE leaveLayer(_, _, _, _, _, _, _)
enterLayer(s, gm, eh, rootns, nd, level, path) ==
    IF Len(layerMws(gm, nd, level)) > 0
    THEN [s EXCEPT !.pc = "select", !.level = level, !.path = path,
                   !.idx = 0, !.token = TRUE]
    ELSE leaveLayer(s, gm, eh, rootns, nd, level, path)

leaveLayer(s, gm, eh, rootns, nd, level, path) ==
    IF (IF Len(path) > 0 THEN path[1] ELSE << >>) \in DOMAIN layerNs(rootns, nd, level)
    THEN (IF Len(path) > 0
          THEN enterLayer(s, gm, eh, rootns, nd,
                          layerNs(rootns, nd, level)[path[1]], Tail(path))
          ELSE [s EXCEPT !.pc = "panicked", !.token = FALSE])
    ELSE finish(s, eh)

\* lines 349-353: the pattern without its first and last slash, split
patternLayers(p) == Split(TrimSuffix(TrimPrefix(p, Slash), Slash), "/")

\* lines 262-272: ServeHTTP up to the first select, res is Router.Handler(r)
atFirstSelect(s) ==
    IF s.cancelled /\ s.pc = "select" THEN [s EXCEPT !.cancelledAt = Len(s.log)] ELSE s

serveStart(gm, eh, rootns, nd, r, res, cancelled) ==
    IF r.uri = << "*" >>
    THEN [Idle EXCEPT !.pc = "done", !.r = r, !.cancelled = cancelled,
                      !.log = << Event("status400", 0, "", 0) >>]
    ELSE IF res.kind = "panic" THEN [Idle EXCEPT !.pc = "panicked", !.r = r, !.res = res]
    ELSE atFirstSelect(enterLayer([Idle EXCEPT !.r = r, !.res = res,
                                               !.cancelled = cancelled],
                                  gm, eh, rootns, nd, NilNode, patternLayers(res.p)))

\* lines 303-330: the middleware mw of the layer is invoked and does `does`;
\* nothing between Intercept and the caller of ServeHTTP recovers a panic
intercepted(s, gm, eh, rootns, nd, mw, does) ==
    IF does = DoesPanic
    THEN [s EXCEPT !.log = Append(s.log, Event("mw", mw, does, 0)),
                   !.pc = "panicked", !.token = FALSE]
    ELSE IF does = DoesErr
    THEN leaveLayer([s EXCEPT !.log = Append(s.log, Event("mw", mw, does, 0)),
                              !.errs = Append(s.errs, mw), !.token = FALSE],
                    gm, eh, rootns, nd, s.level, s.path)
    ELSE [s EXCEPT !.log = Append(s.log, Event("mw", mw, does, 0)),
                   !.token = (does = DoesNext),
                   !.idx = IF does = DoesNext THEN s.idx + 1 ELSE s.idx]

\* ------------------------------------------------------------------------
\* namespace handles (router.go 718-733, 871-986)
\* ------------------------------------------------------------------------
\* A handle is [n, params, abs, parent]: the node it refers to, the parameter
\* names it remembers, and (not in the code) the names it was created with,
\* joined by slashes, and the handle it was created from, 0 for the router.
\* A call returns the router and the handles it leaves behind and the panic it
\* raised.

PanicMsgMissingHandler == "router: missing handler"
PanicInvalidType == "router: invalid type"

HandleOutcome(ro, hs, fault) == [ro |-> ro, hs |-> hs, fault |-> fault]

\* lines 729-732 and 900-902: the handle of the node returned by the insertion
newHandle(ro, hs, ins, params, abs, parent) ==
    HandleOutcome([ro EXCEPT !.nodes = ins.nd, !.ns = ins.ns],
                  Append(hs, [n |-> ins.n, params |-> params, abs |-> abs,
                              parent |-> parent]),
                  NoPanic)

\* Router.Namespace(name)
Router_Namespace(ro, hs, name) ==
    IF ~isValidNamespace(name) THEN HandleOutcome(ro, hs, PanicMsgInvalidNamespace)
    ELSE newHandle(ro, hs, Router_namespace(ro.nodes, ro.ns, parseNamespaceName(name)),
                   parseNamespaceParams(name), name, 0)

\* namespace.Namespace(name) on the handle hs[i]: line 898 assigns the
\* parameters of the name to the handle it is called on, and the handle
\* returned has none
namespace_Namespace(ro, hs, i, name) ==
    IF ~isValidNamespace(name) THEN HandleOutcome(ro, hs, PanicMsgInvalidNamespace)
    ELSE newHandle(ro, [hs EXCEPT ![i].params = parseNamespaceParams(name)],
                   insertNamespace(ro.nodes, ro.ns, hs[i].n, parseNamespaceName(name)),
                   << >>, hs[i].abs \o Slash \o name, i)

\* the number of "{}" in a pattern
RECURSIVE countBrackets(_)
countBrackets(pattern) ==
    IF Len(pattern) < 2 THEN 0
    ELSE IF pattern[1] = "{" /\ pattern[2] = "}"
    THEN 1 + countBrackets(SubSeq(pattern, 3, Len(pattern)))
    ELSE countBrackets(Tail(pattern))

\* lines 905-912: every "{}" replaced by the next of the params
RECURSIVE distributeParams(_, _)
distributeParams(pattern, params) ==
    IF Len(pattern) < 2 THEN pattern
    ELSE IF pattern[1] = "{" /\ pattern[2] = "}"
    THEN params[1] \o distributeParams(SubSeq(pattern, 3, Len(pattern)), Tail(params))
    ELSE << pattern[1] >> \o distributeParams(Tail(pattern), params)

\* lines 945-968: held is the entry the slot holds, generic the path of the
\* node with the slash of the pattern
namespaceStoreHeld(ro, n, slashed, held, generic, params, h, method) ==
    IF ~held.nil THEN storeHeld(ro, n, slashed, held, generic, h, method)
    ELSE IF countBrackets(generic) > Len(params) THEN Outcome(ro, PanicIndex)
    ELSE storeHeld(ro, n, slashed, held, distributeParams(generic, params),
                   h, method)

\* lines 936-958
namespaceStore(ro, n, slashed, params, h, method) ==
    namespaceStoreHeld(ro, n, slashed,
                       IF slashed THEN ro.nodes[n].es ELSE ro.nodes[n].eu,
                       nodePath(ro.nodes, n) \o (IF slashed THEN Slash ELSE << >>),
                       params, h, method)

\* lines 926-936: ins is the node of the pattern below the handle's node
namespaceRegisterAt(ro, ins, pattern, params, h, method) ==
    namespaceStore([ro EXCEPT !.nodes = ins.nd, !.ns = ins.ns], ins.n,
                   Len(pattern) > 0 /\ pattern[Len(pattern)] = "/",
                   params, h, method)

\* namespace.register on the handle hd
namespace_register(ro, hd, pattern, h, method) ==
    IF pattern # << >> /\ ~isValidPattern(pattern) THEN Outcome(ro, PanicMsgInvalidPattern)
    ELSE IF h = NilHandler THEN Outcome(ro, PanicMsgEmptyHandler)
    ELSE namespaceRegisterAt(ro,
             IF parseNamespaceName(pattern) = << >>
             THEN [nd |-> ro.nodes, ns |-> ro.ns, n |-> hd.n]
             ELSE insertNamespace(ro.nodes, ro.ns, hd.n, parseNamespaceName(pattern)),
             pattern, hd.params \o parseNamespaceParams(pattern), h, method)

\* namespace.switchRegister: called with a pattern and a handler, with a
\* pattern alone or with a handler alone; a nil first argument is of no type
switchRegister(ro, hd, method, hasPattern, pattern, hasHandler, h) ==
    IF hasPattern
    THEN (IF pattern = << >> THEN Outcome(ro, PanicMsgInvalidPattern)
          ELSE IF ~hasHandler THEN Outcome(ro, PanicMsgMissingHandler)
          ELSE namespace_register(ro, hd, pattern, h, method))
    ELSE IF h = NilHandler THEN Outcome(ro, PanicInvalidType)
    ELSE namespace_register(ro, hd, << >>, h, method)

\* ------------------------------------------------------------------------
\* the router as a state machine
\* ------------------------------------------------------------------------

VARIABLES
    ns,     \* Router.ns: the children of the root, key -> node
    nodes,  \* the routerNamespace values allocated so far
    e,      \* Router.e: the entry of "/"
    host,   \* Router.host
    calls,  \* the registration calls made so far, each with the panic it raised
    mws,    \* Router.mws: the middlewares of the router
    meh,    \* Router.meh: the middleware error handler
    sv,     \* the ServeHTTP call in flight
    handles, \* the namespace handles returned so far
    mu,     \* Router.mu: whether it is write-locked and how many hold it for reading
    goroutines \* where the goroutines that use the router concurrently are

vars == << ns, nodes, e, host, calls, mws, meh, sv, handles, mu, goroutines >>

\* the number of registration calls in one run
MaxCalls == 3

\* the patterns given to the registration calls
Patterns ==
    { << "/" >>,
      << "/", "a" >>,
      << "/", "a", "/" >>,
      << "/", "{", "i", "}" >>,
      << "/", "{", "i", "}", "/" >>,
      << "/", "a", "/", "b" >>,
      << "/", "a", "/", "{", "i", "}" >>,
      << "/", "{", "i", "}", "/", "{", "j", "}" >>,
      << "s", ".", "c", "/", "a", "/" >>,
      << "s", ".", "c", "/", "{", "i", "}" >>,
      << "/", "{", "}" >> }

RegMethods == {MethodGet, MethodAll}

\* the patterns also registered under POST
PostPatterns == { << "/", "a", "/" >>, << "s", ".", "c", "/", "a", "/" >> }

\* the (pattern, method) pairs given to the registration calls
Registrations == (Patterns \X RegMethods) \cup (PostPatterns \X {MethodPost})

\* the requests given to Router.Handler
Hosts == { << "s", ".", "c" >>, << "o", ".", "c" >>, << "s", ".", "c", ":", "8" >> }

Paths ==
    { << "/" >>,
      << "/", "a" >>,
      << "/", "a", "/" >>,
      << "/", "b" >>,
      << "/", "b", "/" >>,
      << "/", "a", "/", "b" >>,
      << "/", "a", "/", "b", "/" >>,
      << "/", "a", "/", "x" >>,
      << "/", "/", "a" >>,
      << "/", "/" >> }

ReqMethods == {MethodGet, MethodPost}

Queries == { << >>, << "q" >> }

\* every request without a query, and the GET requests on one host with one
Requests ==
    [method : ReqMethods, host : Hosts, path : Paths, query : {<< >>}]
    \cup [method : {MethodGet}, host : {<< "s", ".", "c" >>}, path : Paths,
          query : Queries \ {<< >>}]

router == [ns |-> ns, nodes |-> nodes, e |-> e, host |-> host]

\* NewRouter
Init ==
    /\ ns = EmptyMap
    /\ nodes = << >>
    /\ e = NilEntry
    /\ host = FALSE
    /\ calls = << >>
    /\ mws = << >>
    /\ meh = NilHandler
    /\ sv = Idle
    /\ handles = << >>
    /\ mu = [writer |-> FALSE, readers |-> 0]
    /\ goroutines = [at |-> "idle", r |-> << >>, wat |-> "out", writing |-> {}]

\* the state a call writes, by the names of the fields of Router and of its
\* tree: the namespace maps with the entries of the nodes ("ns"), the root
\* entry ("e"), the method maps of the entries held before ("mh"), the
\* middleware lists ("mws"), the host flag and the error handler
Written ==
    (IF ns' # ns \/ Len(nodes') # Len(nodes)
        \/ \E n \in DOMAIN nodes :
               \/ nodes'[n].ns # nodes[n].ns
               \/ nodes'[n].es.nil # nodes[n].es.nil
               \/ nodes'[n].eu.nil # nodes[n].eu.nil
     THEN {"ns"} ELSE {})
    \cup (IF e'.nil # e.nil THEN {"e"} ELSE {})
    \cup (IF (~e.nil /\ e'.mh # e.mh)
            \/ \E n \in DOMAIN nodes :
                   \/ (~nodes[n].es.nil /\ nodes'[n].es.mh # nodes[n].es.mh)
                   \/ (~nodes[n].eu.nil /\ nodes'[n].eu.mh # nodes[n].eu.mh)
         THEN {"mh"} ELSE {})
    \cup (IF mws' # mws \/ \E n \in DOMAIN nodes : nodes'[n].mws # nodes[n].mws
         THEN {"mws"} ELSE {})
    \cup (IF host' # host THEN {"host"} ELSE {})
    \cup (IF meh' # meh THEN {"meh"} ELSE {})

\* mu.Lock() and the deferred mu.Unlock() around the body of a call.  With no
\* other goroutine the call is one step; with a goroutine that serves, the
\* body is the step between Lock and Unlock, and what it writes is being
\* written until Unlock.
Locked ==
    IF goroutines.wat = "locked"
    THEN /\ mu' = mu
         /\ goroutines' = [goroutines EXCEPT !.wat = "written", !.writing = Written]
    ELSE /\ goroutines.wat = "out"
         /\ UNCHANGED << mu, goroutines >>

\* the router left by a call and the record of the call
Returned(out, pattern, h, method) ==
    /\ ns' = out.ro.ns
    /\ nodes' = out.ro.nodes
    /\ e' = out.ro.e
    /\ host' = out.ro.host
    /\ calls' = Append(calls, [op |-> "register", pattern |-> pattern,
                               method |-> method, handler |-> h, fault |-> out.fault,
                               on |-> 0])

\* Router.All, Router.Get, ...: register(pattern, h, method)
Register(pattern, h, method) ==
    /\ Len(calls) < MaxCalls
    /\ sv.pc = "idle"
    /\ Returned(register(router, pattern, h, method), pattern, h, method)
    /\ UNCHANGED << mws, meh, sv, handles >>
    /\ Locked

\* every call passes a handler value of its own, so that a result names the
\* call it came from
Next ==
    \E reg \in Registrations : Register(reg[1], Len(calls) + 1, reg[2])

Spec == Init /\ [][Next]_vars

\* ------------------------------------------------------------------------
\* the router with middlewares, serving one request
\* ------------------------------------------------------------------------

\* the patterns registered (with GET) before the request
ServePatterns ==
    { << "/", "a" >>,
      << "/", "a", "/", "b" >>,
      << "/", "a", "/", "{", "i", "}" >> }

\* the paths given to Router.Use
UsePaths ==
    { << "/", "a" >>,
      << "/", "a", "/", "b" >> }

\* the names given to Router.Namespace
NamespaceNames ==
    { << "a" >>,
      << "a", "/", "b" >>,
      << "a", "/", "{", "i", "}" >> }

\* the requests given to ServeHTTP
ServePaths ==
    { << "/", "a" >>,
      << "/", "a", "/", "b" >>,
      << "/", "a", "/", "x" >>,
      << "/", "b" >> }

\* uri is the RequestURI of the request: the path, or "*"
ServeRequests ==
    { [method |-> MethodGet, host |-> << "o", ".", "c" >>, path |-> path,
       query |-> << >>, uri |-> path] : path \in ServePaths }
    \cup { [method |-> MethodGet, host |-> << "o", ".", "c" >>, path |-> << "/" >>,
            query |-> << >>, uri |-> << "*" >>] }

Does == {DoesNext, DoesErr, DoesHalt, DoesPanic}

\* the router left by a call of Use and the record of the call
Used(out, op, name, mw) ==
    /\ ns' = out.ro.ns
    /\ nodes' = out.ro.nodes
    /\ calls' = Append(calls, [op |-> op, pattern |-> name, method |-> "",
                               handler |-> mw, fault |-> out.fault, on |-> 0])
    /\ UNCHANGED << e, host, mws, meh, sv, handles >>
    /\ Locked

\* Router.Use(mw), lines 786-791
UseRouter(mw) ==
    /\ Len(calls) < MaxCalls
    /\ sv.pc = "idle"
    /\ mws' = Append(mws, mw)
    /\ calls' = Append(calls, [op |-> "use", pattern |-> << >>, method |-> "",
                               handler |-> mw, fault |-> NoPanic, on |-> 0])
    /\ UNCHANGED << ns, nodes, e, host, meh, sv, handles >>
    /\ Locked

\* Router.Use(path, mw), lines 793-799
UsePath(path, mw) ==
    /\ Len(calls) < MaxCalls
    /\ sv.pc = "idle"
    /\ Used(addMiddlewareOnPath(router, path, mw), "usepath", path, mw)

\* Router.Namespace(name).Use(mw), lines 718-733 and 1071-1078
NamespaceUse(name, mw) ==
    /\ Len(calls) < MaxCalls
    /\ sv.pc = "idle"
    /\ Used(namespaceUse(router, name, mw), "nsuse", name, mw)

\* Router.Use(errorHandler), lines 801-806
UseErrorHandler(eh) ==
    /\ Len(calls) < MaxCalls
    /\ sv.pc = "idle"
    /\ meh' = eh
    /\ calls' = Append(calls, [op |-> "usemeh", pattern |-> << >>, method |-> "",
                               handler |-> eh, fault |-> NoPanic, on |-> 0])
    /\ UNCHANGED << ns, nodes, e, host, mws, sv, handles >>
    /\ Locked

\* ServeHTTP(w, r) up to its first select; c tells that the context of the
\* request is cancelled already
ServeHTTP(r, c) ==
    /\ sv.pc = "idle"
    /\ sv' = serveStart(mws, meh, ns, nodes, r, Handler(router, r), c)
    /\ UNCHANGED << ns, nodes, e, host, calls, mws, meh, handles, mu, goroutines >>

\* line 298 with idx < size: the next middleware of the layer is invoked
Intercept(does) ==
    /\ sv.pc = "select"
    /\ sv.token
    /\ sv.idx < Len(layerMws(mws, nodes, sv.level))
    /\ sv' = intercepted(sv, mws, meh, ns, nodes,
                         layerMws(mws, nodes, sv.level)[sv.idx + 1], does)
    /\ UNCHANGED << ns, nodes, e, host, calls, mws, meh, handles, mu, goroutines >>

\* line 298 with idx >= size: the layer is done
LayerEnd ==
    /\ sv.pc = "select"
    /\ sv.token
    /\ sv.idx >= Len(layerMws(mws, nodes, sv.level))
    /\ sv' = leaveLayer(sv, mws, meh, ns, nodes, sv.level, sv.path)
    /\ UNCHANGED << ns, nodes, e, host, calls, mws, meh, handles, mu, goroutines >>

\* line 332: the context is done, the layer is left
CtxDone ==
    /\ sv.pc = "select"
    /\ sv.cancelled
    /\ sv' = leaveLayer([sv EXCEPT !.token = FALSE], mws, meh, ns, nodes,
                        sv.level, sv.path)
    /\ UNCHANGED << ns, nodes, e, host, calls, mws, meh, handles, mu, goroutines >>

\* the client goes away while the request is served
Cancel ==
    /\ sv.pc = "select"
    /\ ~sv.cancelled
    /\ sv' = [sv EXCEPT !.cancelled = TRUE, !.cancelledAt = Len(sv.log)]
    /\ UNCHANGED << ns, nodes, e, host, calls, mws, meh, handles, mu, goroutines >>

NextServe ==
    \/ \E pattern \in ServePatterns : Register(pattern, Len(calls) + 1, MethodGet)
    \/ UseRouter(Len(calls) + 1)
    \/ \E path \in UsePaths : UsePath(path, Len(calls) + 1)
    \/ \E name \in NamespaceNames : NamespaceUse(name, Len(calls) + 1)
    \/ UseErrorHandler(Len(calls) + 1)
    \/ \E r \in ServeRequests, c \in BOOLEAN : ServeHTTP(r, c)
    \/ \E does \in Does : Intercept(does)
    \/ LayerEnd
    \/ CtxDone
    \/ Cancel

SpecServe == Init /\ [][NextServe]_vars

\* The goroutine of ServeHTTP runs whenever its select has a ready case: a
\* value in iCh or a context that is done.  Nothing makes a client cancel.
FairServe ==
    /\ SpecServe
    /\ WF_vars(\E does \in Does : Intercept(does))
    /\ WF_vars(LayerEnd)
    /\ WF_vars(CtxDone)

\* ------------------------------------------------------------------------
\* vocabulary of the properties
\* ------------------------------------------------------------------------

IsParamSegment(seg) == Len(seg) >= 3 /\ seg[1] = "{" /\ seg[Len(seg)] = "}"

\* target is pattern with every {name} segment replaced by a non-empty
\* slash-free value
Instantiates(target, pattern) ==
    LET ps == Split(pattern, "/")
        ts == Split(target, "/")
    IN  /\ Len(ps) = Len(ts)
        /\ \A k \in 1..Len(ps) :
               IF IsParamSegment(ps[k]) THEN Len(ts[k]) > 0 ELSE ts[k] = ps[k]

\* the text a pattern is compared with: the path, after the host when the
\* pattern starts with one
RequestText(r, pattern) ==
    IF pattern[1] = "/" THEN requestPath(r) ELSE requestHost(r) \o requestPath(r)

\* r is a request in canonical form for the pattern
RequestFor(r, pattern) ==
    /\ requestPath(r) = r.path
    /\ Instantiates(RequestText(r, pattern), pattern)

ParamNames(pattern) ==
    LET ps == Split(pattern, "/")
    IN  {SubSeq(ps[k], 2, Len(ps[k]) - 1) : k \in {l \in 1..Len(ps) : IsParamSegment(ps[l])}}

OtherSlash(s) == IF s[Len(s)] = "/" THEN SubSeq(s, 1, Len(s) - 1) ELSE s \o Slash

HasParams(pattern) == ParamNames(pattern) # {}

Returned_(k) == calls[k].fault = NoPanic

Calls == 1..Len(calls)

IsHit(res) == res.kind = "handler"

\* the two patterns name the same slot: both the root, or the same normalized
\* name and the same trailing slash
SameSlot(p, q) ==
    \/ p = Slash /\ q = Slash
    \/ /\ p # Slash /\ q # Slash
       /\ parseNamespaceName(p) = parseNamespaceName(q)
       /\ (p[Len(p)] = "/") = (q[Len(q)] = "/")

\* the returned registrations whose pattern the request instantiates
HitsOf(r) == {k \in Calls : Returned_(k) /\ RequestFor(r, calls[k].pattern)}

\* the request instantiates the pattern of call k and of no registration of
\* another slot, so no precedence rule is involved
OnlyFor(r, k) ==
    /\ k \in HitsOf(r)
    /\ \A l \in HitsOf(r) : SameSlot(calls[l].pattern, calls[k].pattern)

\* the request with the slash at the end of its path toggled
Toggled(r) == [r EXCEPT !.path = OtherSlash(r.path)]


\* ------------------------------------------------------------------------
\* C1..C10
\* ------------------------------------------------------------------------

\* C1: after register(p, h, m) returned, a request with method m whose cleaned
\* path instantiates p gets handler h and pattern p from Router.Handler.
C1_RoundTrip ==
    \A k \in Calls : \A r \in Requests :
        (Returned_(k) /\ r.method = calls[k].method /\ OnlyFor(r, k))
        => /\ IsHit(Handler(router, r))
           /\ Handler(router, r).h = calls[k].handler
           /\ Handler(router, r).p = calls[k].pattern

\* C2: on a direct hit the params are not nil, their keys are exactly the
\* parameter names of the pattern returned, and each holds the segment of the
\* request at the position of its parameter.
C2_ParamCapture ==
    \A r \in Requests :
        LET res == Handler(router, r)
            ps  == Split(res.p, "/")
            ts  == Split(RequestText(r, res.p), "/")
        IN  IsHit(res) =>
                /\ ~res.nilparams
                /\ DOMAIN res.params = ParamNames(res.p)
                /\ Len(ps) = Len(ts)
                /\ \A k \in 1..Len(ps) :
                       IsParamSegment(ps[k]) =>
                           res.params[SubSeq(ps[k], 2, Len(ps[k]) - 1)] = ts[k]

\* C2 witness: a registered handler is returned with a captured parameter
C2_Witness ==
    \E r \in Requests :
        /\ IsHit(Handler(router, r))
        /\ DOMAIN Handler(router, r).params # {}

\* C3: for the entry the lookup selects, the handler of the request's method is
\* returned when the entry has one, else the handler of ALL, and when the
\* entry has neither the request is no hit (not found or a redirect).
C3_MethodSelection ==
    \A r \in Requests :
        LET en  == handlerEntry(router, hostEntry(router, requestHost(r), requestPath(r)),
                                requestPath(r))
            res == Handler(router, r)
        IN  (~en.nil /\ requestPath(r) = r.path) =>
                IF r.method \in DOMAIN en.mh
                THEN IsHit(res) /\ res.h = en.mh[r.method] /\ res.p = en.pattern
                ELSE IF MethodAll \in DOMAIN en.mh
                THEN IsHit(res) /\ res.h = en.mh[MethodAll] /\ res.p = en.pattern
                ELSE res.kind \in {"notfound", "redirect"}

\* C3 witness: the entry selected has a handler for the method and another
\* for ALL, and the handler of the method is the one returned
C3_Witness ==
    \E r \in Requests :
        LET en == handlerEntry(router, hostEntry(router, requestHost(r), requestPath(r)),
                               requestPath(r))
        IN  /\ ~en.nil
            /\ {r.method, MethodAll} \subseteq DOMAIN en.mh
            /\ en.mh[r.method] # en.mh[MethodAll]
            /\ Handler(router, r).h = en.mh[r.method]

\* C4: handlers registered for one pattern under different methods are all
\* kept: after register(p, h1, m1) and register(p, h2, m2), m1 # m2, a request
\* for p with a registered method still gets that method's handler.
C4_ManyMethods ==
    \A k \in Calls, l \in Calls : \A r \in Requests :
        (/\ Returned_(k) /\ Returned_(l)
         /\ calls[k].pattern = calls[l].pattern
         /\ calls[k].method # calls[l].method
         /\ r.method = calls[k].method
         /\ OnlyFor(r, k))
        => IsHit(Handler(router, r)) /\ Handler(router, r).h = calls[k].handler

\* C5: with p and p+"/" both registered for a method, in either order, a
\* request to p gets p's handler and pattern and a request to p+"/" gets the
\* handler and pattern of p+"/".
C5_SlashDistinct ==
    \A k \in Calls, l \in Calls : \A r \in Requests :
        (/\ Returned_(k) /\ Returned_(l)
         /\ calls[l].pattern = OtherSlash(calls[k].pattern)
         /\ calls[k].method = calls[l].method
         /\ r.method = calls[k].method
         /\ OnlyFor(r, k))
        => /\ IsHit(Handler(router, r))
           /\ Handler(router, r).h = calls[k].handler
           /\ Handler(router, r).p = calls[k].pattern

\* C6: a literal pattern and a parameterised pattern that matches the same
\* path are both registered, in either order: a request whose path equals the
\* literal pattern gets the literal pattern's handler.
C6_LiteralBeatsParam ==
    \A k \in Calls, l \in Calls : \A r \in Requests :
        (/\ Returned_(k) /\ Returned_(l)
         /\ ~HasParams(calls[k].pattern) /\ HasParams(calls[l].pattern)
         /\ r.method = calls[k].method
         /\ r.path = calls[k].pattern
         /\ RequestFor(r, calls[l].pattern))
        => /\ IsHit(Handler(router, r))
           /\ Handler(router, r).h = calls[k].handler
           /\ Handler(router, r).p = calls[k].pattern

\* C7: register(p, h', m) panics with the endpoint duplication fault when a
\* registration of (p, m) returned before.
C7_DuplicateDetected ==
    \A k \in Calls, l \in Calls :
        (/\ k < l /\ Returned_(k)
         /\ calls[k].pattern = calls[l].pattern
         /\ calls[k].method = calls[l].method
         /\ calls[l].handler # NilHandler)
        => calls[l].fault = PanicMsgEndpointDuplication

C9_SlashRedirect ==
    \A k \in Calls : \A r \in Requests :
        (/\ Returned_(k)
         /\ calls[k].pattern # Slash
         /\ r.path # Slash
         /\ requestPath(r) = r.path
         /\ HitsOf(r) = {}
         /\ OnlyFor(Toggled(r), k))
        => LET res == Handler(router, r)
           IN  IF \E l \in HitsOf(Toggled(r)) : calls[l].method \in {r.method, MethodAll}
               THEN /\ res.kind = "redirect"
                    /\ res.p = RequestText(Toggled(r), calls[k].pattern)
                    /\ res.nilparams
               ELSE /\ res.kind = "notfound"
                    /\ res.p = << >>
                    /\ res.nilparams

\* C10: when Router.Handler returns a redirect for a request, the request
\* with the same host and method whose path is the target of the redirect is
\* a direct hit on a registered handler.
C10_NoRedirectToMiss ==
    \A r \in Requests :
        Handler(router, r).kind = "redirect"
        => IsHit(Handler(router, [r EXCEPT !.path = Handler(router, r).p]))

\* the request with its path cleaned
Cleaned(r) == [r EXCEPT !.path = requestPath(r)]

PatternHost(pattern) == SubSeq(pattern, 1, IndexOf(pattern, "/") - 1)

PatternPath(pattern) == SubSeq(pattern, IndexOf(pattern, "/"), Len(pattern))

IsHostPattern(pattern) == pattern[1] # "/"

\* the Host of a request with its ":port" removed
HostWithoutPort(h) ==
    IF Contains(h, ":") THEN SubSeq(h, 1, IndexOf(h, ":") - 1) ELSE h

\* C12: only the host-qualified pattern H+P is registered, for method m: a
\* request with method m and path P gets the handler and the pattern H+P when
\* its Host without the port is H, and is not found on any other host.
C12_HostMatch ==
    \A k \in Calls : \A r \in Requests :
        (/\ Returned_(k)
         /\ IsHostPattern(calls[k].pattern) /\ ~HasParams(calls[k].pattern)
         /\ \A l \in Calls : Returned_(l) => l = k
         /\ calls[k].method \in {r.method, MethodAll}
         /\ r.path = PatternPath(calls[k].pattern))
        => IF HostWithoutPort(r.host) = PatternHost(calls[k].pattern)
           THEN /\ IsHit(Handler(router, r))
                /\ Handler(router, r).h = calls[k].handler
                /\ Handler(router, r).p = calls[k].pattern
           ELSE Handler(router, r) = NotFound

\* C12 witness: the only pattern registered is host-qualified, a request
\* whose Host has a port gets its handler and one on another host does not
C12_Witness ==
    \E k \in Calls : \E r \in Requests, q \in Requests :
        /\ Returned_(k) /\ IsHostPattern(calls[k].pattern)
        /\ \A l \in Calls : Returned_(l) => l = k
        /\ Contains(r.host, ":")
        /\ IsHit(Handler(router, r)) /\ Handler(router, r).h = calls[k].handler
        /\ q.path = r.path /\ q.method = r.method
        /\ Handler(router, q) = NotFound

\* C13: a host-qualified pattern with {name} parameters is registered: a
\* request on that host whose path instantiates the pattern gets the handler
\* with params holding the segment captured for every parameter name, and the
\* capture does not fault.
C13_HostParams ==
    \A k \in Calls : \A r \in Requests :
        (/\ Returned_(k)
         /\ IsHostPattern(calls[k].pattern) /\ HasParams(calls[k].pattern)
         /\ calls[k].method \in {r.method, MethodAll}
         /\ OnlyFor(r, k))
        => /\ Handler(router, r).kind # "panic"
           /\ IsHit(Handler(router, r))
           /\ Handler(router, r).h = calls[k].handler
           /\ DOMAIN Handler(router, r).params = ParamNames(calls[k].pattern)

\* C14: host-qualified patterns are registered and the entry matching
\* host+path has no handler for the method of the request and none for ALL:
\* the lookup goes on with the path alone, and a handler registered for the
\* path and the method without a host is returned.
C14_HostFallThrough ==
    \A r \in Requests :
        LET byHost == hostEntry(router, requestHost(r), requestPath(r))
            plain  == match(router, requestPath(r))
        IN  (/\ requestPath(r) = r.path
             /\ ~byHost.nil
             /\ r.method \notin DOMAIN byHost.mh /\ MethodAll \notin DOMAIN byHost.mh
             /\ ~plain.nil /\ r.method \in DOMAIN plain.mh)
            => /\ IsHit(Handler(router, r))
               /\ Handler(router, r).h = plain.mh[r.method]
               /\ Handler(router, r).p = plain.pattern

HandleNames ==
    { << "a" >>,
      << "a", "/", "{", "x", "}" >>,
      << "{", "x", "}" >>,
      << "/", "a" >>,
      << "a", "/", "{", "}" >> }

\* the names given to namespace.Namespace
SubNames ==
    { << "s" >>,
      << "{", "y", "}" >>,
      << "/", "s" >> }

\* the patterns given to the registrations on a handle
SubPatterns ==
    { << >>,
      << "/" >>,
      << "/", "b" >>,
      << "/", "{", "i", "}" >>,
      << "/", "/" >>,
      << "/", "{", "}" >> }

\* the patterns given to the registrations on the router
RouterPatterns ==
    { << >>,
      << "/", "/" >>,
      << "/", "a", "/", "/", "b" >>,
      << "/", "a", "/", "{", "}" >>,
      << "/", "a", "/", "b" >> }

\* the router and the handles left by a call and the record of the call
HandleReturned(out, op, on, pattern, method, h) ==
    /\ ns' = out.ro.ns
    /\ nodes' = out.ro.nodes
    /\ e' = out.ro.e
    /\ host' = out.ro.host
    /\ handles' = out.hs
    /\ calls' = Append(calls, [op |-> op, pattern |-> pattern, method |-> method,
                               handler |-> h, fault |-> out.fault, on |-> on])
    /\ UNCHANGED << mws, meh, sv >>
    /\ Locked

\* Router.Namespace(name)
Namespace(name) ==
    /\ Len(calls) < MaxCalls
    /\ sv.pc = "idle"
    /\ HandleReturned(Router_Namespace(router, handles, name),
                      "namespace", 0, name, "", NilHandler)

\* handles[i].Namespace(name)
HandleNamespace(i, name) ==
    /\ Len(calls) < MaxCalls
    /\ sv.pc = "idle"
    /\ HandleReturned(namespace_Namespace(router, handles, i, name),
                      "subnamespace", i, name, "", NilHandler)

withHandles(out, hs) == HandleOutcome(out.ro, hs, out.fault)

\* handles[i].Get(pattern, h), handles[i].Get(pattern) and handles[i].Get(h):
\* form tells which arguments are given
HandleRegister(i, form, pattern, h, method) ==
    /\ Len(calls) < MaxCalls
    /\ sv.pc = "idle"
    /\ HandleReturned(withHandles(switchRegister(router, handles[i], method,
                                                 form # "hregisterHandler", pattern,
                                                 form # "hregisterPattern", h),
                                  handles),
                      form, i, pattern, method, h)

NextHandles ==
    \/ \E name \in HandleNames : Namespace(name)
    \/ \E i \in 1..Len(handles), name \in SubNames : HandleNamespace(i, name)
    \/ \E i \in 1..Len(handles), pattern \in SubPatterns,
          h \in {Len(calls) + 1, NilHandler} :
           HandleRegister(i, "hregister", pattern, h, MethodGet)
    \/ \E i \in 1..Len(handles), pattern \in SubPatterns :
           HandleRegister(i, "hregisterPattern", pattern, NilHandler, MethodGet)
    \/ \E i \in 1..Len(handles), h \in {Len(calls) + 1, NilHandler} :
           HandleRegister(i, "hregisterHandler", << >>, h, MethodGet)
    \/ \E pattern \in RouterPatterns, h \in {Len(calls) + 1, NilHandler} :
           Register(pattern, h, MethodGet)

SpecHandles == Init /\ [][NextHandles]_vars

\* ------------------------------------------------------------------------
\* the router used by two goroutines: one registers, one serves
\* ------------------------------------------------------------------------

\* the (pattern, method) pairs registered while a request is served
LockedRegistrations ==
    { << << "/" >>, MethodGet >>,
      << << "/", "a" >>, MethodGet >>,
      << << "/", "a" >>, MethodAll >>,
      << << "s", ".", "c", "/", "a", "/" >>, MethodGet >> }

\* mu.Lock() of a call: it waits for the readers and the writer to leave
Lock ==
    /\ Len(calls) < MaxCalls
    /\ sv.pc = "idle"
    /\ goroutines.wat = "out"
    /\ ~mu.writer
    /\ mu.readers = 0
    /\ mu' = [mu EXCEPT !.writer = TRUE]
    /\ goroutines' = [goroutines EXCEPT !.wat = "locked"]
    /\ UNCHANGED << ns, nodes, e, host, calls, mws, meh, sv, handles >>

\* the deferred mu.Unlock() of a call, after its body returned or panicked
Unlock ==
    /\ goroutines.wat = "written"
    /\ mu' = [mu EXCEPT !.writer = FALSE]
    /\ goroutines' = [goroutines EXCEPT !.wat = "out", !.writing = {}]
    /\ UNCHANGED << ns, nodes, e, host, calls, mws, meh, sv, handles >>

\* The places of ServeHTTP that read the router, in the order it reaches them,
\* with what each reads: "host" is line 410, "match" lines 513-533, "mh" lines
\* 422-429, "redirect" lines 443-510, "mws" lines 285-355 and "meh" line 272.
serveReads(at) ==
    CASE at = "host" -> {"host"}
      [] at = "match" -> {"ns", "e"}
      [] at = "mh" -> {"mh"}
      [] at = "redirect" -> {"ns", "mh"}
      [] at = "mws" -> {"ns", "mws"}
      [] at = "meh" -> {"meh"}
      [] OTHER -> {}

\* the places inside mu.RLock() ... mu.RUnlock(): Router.match and the two
\* redirect tests
rlocked(at) == at \in {"match", "redirect"}

\* the places ServeHTTP can reach next: the handler is looked up in the entry
\* that matched, the redirect tests run when there is no handler, the error
\* handler is read when a middleware gave an error
serveNext(g, ro, gm) ==
    CASE g.at = "host" -> {"match"}
      [] g.at = "match" ->
             IF handlerEntry(ro, hostEntry(ro, requestHost(g.r), requestPath(g.r)),
                             requestPath(g.r)).nil
             THEN {"redirect"} ELSE {"mh"}
      [] g.at = "mh" ->
             IF "mh" \in g.writing THEN {"mws", "redirect"}
             ELSE IF handler(ro, requestHost(g.r), requestPath(g.r), g.r.method).kind
                         = "handler"
             THEN {"mws"} ELSE {"redirect"}
      [] g.at = "redirect" -> {"mws"}
      [] g.at = "mws" ->
             IF gm # << >> \/ \E n \in DOMAIN ro.nodes : ro.nodes[n].mws # << >>
             THEN {"meh", "idle"} ELSE {"idle"}
      [] g.at = "meh" -> {"idle"}
      [] OTHER -> {}

\* ServeHTTP(w, r) called on another goroutine, up to its first read
ServeBegin(r) ==
    /\ goroutines.at = "idle"
    /\ sv.pc = "idle"
    /\ r.uri # << "*" >>
    /\ goroutines' = [goroutines EXCEPT !.at = "host", !.r = r]
    /\ UNCHANGED << ns, nodes, e, host, calls, mws, meh, sv, handles, mu >>

\* ServeHTTP goes on to the place to; mu.RLock() waits for the writer to leave
ServeStep(to) ==
    /\ to \in serveNext(goroutines, router, mws)
    /\ rlocked(to) => ~mu.writer
    /\ mu' = [mu EXCEPT !.readers = IF rlocked(to) THEN 1 ELSE 0]
    /\ goroutines' = [goroutines EXCEPT !.at = to,
                                        !.r = IF to = "idle" THEN << >> ELSE @]
    /\ UNCHANGED << ns, nodes, e, host, calls, mws, meh, sv, handles >>

NextLock ==
    \/ Lock
    \/ \E reg \in LockedRegistrations :
           goroutines.wat = "locked" /\ Register(reg[1], Len(calls) + 1, reg[2])
    \/ goroutines.wat = "locked" /\ UseRouter(Len(calls) + 1)
    \/ \E path \in UsePaths :
           goroutines.wat = "locked" /\ UsePath(path, Len(calls) + 1)
    \/ goroutines.wat = "locked" /\ UseErrorHandler(Len(calls) + 1)
    \/ Unlock
    \/ \E r \in ServeRequests : ServeBegin(r)
    \/ \E to \in {"match", "mh", "redirect", "mws", "meh", "idle"} : ServeStep(to)

SpecLock == Init /\ [][NextLock]_vars

\* ------------------------------------------------------------------------
\* the namespace tree under insertions
\* ------------------------------------------------------------------------

\* the names inserted from the root
TreeNames ==
    { << "a" >>,
      << "a", "/", "b" >>,
      << "a", "/", "b", "/", "c" >>,
      << "a", "/", "{", "x", "}" >>,
      << "b" >> }

\* the names inserted below the node of a handle
TreeSubNames ==
    { << "b" >>,
      << "b", "/", "c" >>,
      << "{", "y", "}" >> }

\* the patterns registered, each inserting its name
TreePatterns ==
    { << "/", "a", "/", "b", "/", "c" >>,
      << "/", "a", "/", "b" >>,
      << "/", "a", "/", "{", "i", "}" >> }

NextTree ==
    \/ \E name \in TreeNames : Namespace(name)
    \/ \E i \in 1..Len(handles), name \in TreeSubNames : HandleNamespace(i, name)
    \/ \E pattern \in TreePatterns : Register(pattern, Len(calls) + 1, MethodGet)
    \/ \E name \in TreeNames : NamespaceUse(name, Len(calls) + 1)
    \/ \E i \in 1..Len(handles), pattern \in {<< "/", "b", "/", "c" >>, << "/", "b" >>} :
           HandleRegister(i, "hregister", pattern, Len(calls) + 1, MethodGet)

SpecTree == Init /\ [][NextTree]_vars

\* ------------------------------------------------------------------------
\* the words of the claims about middlewares
\* ------------------------------------------------------------------------

\* the node is in the tree: its key chain leads to the router
RECURSIVE Attached(_)
Attached(n) ==
    IF nodes[n].p = NilNode THEN \E k \in DOMAIN ns : ns[k] = n
    ELSE /\ \E k \in DOMAIN nodes[nodes[n].p].ns : nodes[nodes[n].p].ns[k] = n
         /\ Attached(nodes[n].p)

\* the absolute normalized path of a node and of a pattern, without slashes
\* at the ends
NodeAbsPath(n) == parseNamespaceName(nodePath(nodes, n))

NodesAt(path) == { n \in DOMAIN nodes : Attached(n) /\ NodeAbsPath(n) = path }

MwsAt(path) ==
    IF NodesAt(path) = {} THEN << >> ELSE nodes[CHOOSE n \in NodesAt(path) : TRUE].mws

\* the middlewares of the nodes along the segments from the k-th prefix on,
\* root to leaf
RECURSIVE NodePipeline(_, _)
NodePipeline(segs, k) ==
    IF k > Len(segs) THEN << >>
    ELSE MwsAt(Join(SubSeq(segs, 1, k), "/")) \o NodePipeline(segs, k + 1)

\* the applicable middlewares of a matched pattern, in pipeline order
Applicable(p) == mws \o NodePipeline(Split(parseNamespaceName(p), "/"), 1)

\* the middlewares invoked so far, in order, and how often one was invoked
Invoked == SelectSeq(sv.log, LAMBDA ev : ev.ev = "mw")

InvokedIds == [k \in 1..Len(Invoked) |-> Invoked[k].id]

TimesInvoked(mw) == Cardinality({ k \in 1..Len(Invoked) : Invoked[k].id = mw })

HandlerInvoked == \E k \in 1..Len(sv.log) : sv.log[k].ev = "handler"

ErrorHandlerInvoked == \E k \in 1..Len(sv.log) : sv.log[k].ev = "meh"

AllCalledNext == \A k \in 1..Len(Invoked) : Invoked[k].does = DoesNext

\* the request was answered by a handler of a registered pattern
Matched == sv.pc \in {"select", "done"} /\ sv.res.kind = "handler"

\* C16: when the request matched a pattern, its context was not cancelled and
\* every middleware invoked called next(), then at the return of ServeHTTP the
\* middlewares invoked are the applicable ones, each once: the router's in
\* registration order, then each node's along the pattern from root to leaf;
\* and the handler was invoked once, after all of them.
C16_MiddlewareOrder ==
    (sv.pc = "done" /\ Matched /\ ~sv.cancelled /\ AllCalledNext)
        => /\ InvokedIds = Applicable(sv.res.p)
           /\ sv.log = Invoked \o << Event("handler", sv.res.h, "", 0) >>

\* the pattern passes through the node: the segments of the node's absolute
\* normalized path are the first segments of the pattern's normalized path
IsSegmentPrefix(a, b) == Len(a) <= Len(b) /\ SubSeq(b, 1, Len(a)) = a

PassesThrough(p, n) ==
    /\ Attached(n)
    /\ IsSegmentPrefix(Split(NodeAbsPath(n), "/"), Split(parseNamespaceName(p), "/"))

\* C17: when the handler of a matched pattern is invoked for a request whose
\* context was not cancelled, every middleware of every node the pattern
\* passes through was invoked before it, whether the node's name is one
\* segment, several segments or contains a parameter.
C17_Applicability ==
    (Matched /\ HandlerInvoked /\ ~sv.cancelled)
        => \A n \in DOMAIN nodes :
               PassesThrough(sv.res.p, n)
                   => \A k \in 1..Len(nodes[n].mws) : TimesInvoked(nodes[n].mws[k]) > 0

\* the error was surfaced: given to the error handler, or answered with 500
Surfacings ==
    { k \in 1..Len(sv.log) : sv.log[k].ev \in {"meh", "status500"} }

SurfacedFirstErrorOnce ==
    /\ Cardinality(Surfacings) = 1
    /\ \A k \in Surfacings :
           /\ sv.log[k].err = sv.errs[1]
           /\ sv.log[k].ev = (IF meh = NilHandler THEN "status500" ELSE "meh")
           /\ sv.log[k].id = meh

\* C18: when a middleware has called next(err), the handler is not invoked,
\* and the call goes on to surface the error of the first such middleware,
\* once: to the error handler if one is registered, else as status 500
\* (unless a middleware panics).
C18_ErrorSurfacing ==
    /\ [](sv.errs # << >> => ~HandlerInvoked)
    /\ [](sv.errs # << >> /\ sv.pc = "done" => SurfacedFirstErrorOnce)
    /\ (sv.errs # << >>)
           ~> ((sv.pc = "done" /\ SurfacedFirstErrorOnce) \/ sv.pc = "panicked")

\* the part of C18 that is about what was invoked, without the progress
C18_Surfaced ==
    /\ sv.errs # << >> => ~HandlerInvoked
    /\ Surfacings # {} => sv.errs # << >> /\ sv.pc = "done" /\ SurfacedFirstErrorOnce
    /\ sv.errs # << >> /\ sv.pc = "done" => SurfacedFirstErrorOnce

\* C19: a middleware that called next(err) is the last middleware invoked
\* for the request: none later in its node's list and none of a deeper node
\* (stated for requests whose context is not cancelled).
C19_ErrorAborts ==
    ~sv.cancelled
        => \A k \in 1..Len(Invoked) : Invoked[k].does = DoesErr => k = Len(Invoked)

\* C20: when no middleware called next(err) and a middleware returned without
\* calling next, that middleware is the last one invoked for the request, and
\* neither the handler nor the error handler is invoked.
C20_SilentHalt ==
    sv.errs = << >>
        => \A k \in 1..Len(Invoked) :
               Invoked[k].does = DoesHalt
                   => /\ k = Len(Invoked)
                      /\ ~HandlerInvoked
                      /\ ~ErrorHandlerInvoked

\* what was invoked after the context was cancelled at a select
InvokedAfterCancel ==
    { k \in 1..Len(sv.log) :
        k > sv.cancelledAt /\ sv.log[k].ev \in {"mw", "handler", "meh"} }

\* C21: when the context of the request is cancelled while the call waits at
\* the select of a layer (before its first middleware ran, or before the
\* continuation of the last one was taken), no middleware of any layer, no
\* handler and no error handler is invoked afterwards.
C21_Cancellation ==
    sv.cancelledAt # NotCancelled => InvokedAfterCancel = {}

\* a middleware invoked for the request panicked
MiddlewarePanicked == \E k \in 1..Len(sv.log) : sv.log[k].does = DoesPanic

\* the outcomes of a call: what ServeHTTP did last before it returned
Outcomes == {"handler", "redirect", "notfound", "status400", "status500", "meh"}

Returned_Outcome ==
    /\ sv.pc = "done"
    /\ Len(sv.log) > 0
    /\ sv.log[Len(sv.log)].ev \in Outcomes

\* C22: every call of ServeHTTP returns, with the handler (or the error
\* handler) invoked or with a 301, 404, 400 or 500 answer, whenever every
\* middleware it invokes returns; also when a middleware returned without
\* calling next and nothing cancels the context.
C22_DispatchTerminates ==
    (sv.pc # "idle") ~> (Returned_Outcome \/ MiddlewarePanicked)

\* C23: a panic of a middleware does not leave ServeHTTP: the call returns
\* with the status 500.
C23_PanicIsolation ==
    MiddlewarePanicked
        => /\ sv.pc # "panicked"
           /\ sv.pc = "done" => sv.log[Len(sv.log)].ev = "status500"

\* the part of C23 about the router: serving a request, with or without a
\* panic, leaves the tree, the entries and the middleware lists as they were
C23_ServeChangesNothing ==
    [][sv.pc # "idle" => UNCHANGED << ns, nodes, e, host, mws, meh >>]_vars

\* the step is a call of Router.Use(path, mw) that returned
IsUsePathStep(path, mw) ==
    /\ Len(calls') = Len(calls) + 1
    /\ calls'[Len(calls')].op = "usepath"
    /\ calls'[Len(calls')].pattern = path
    /\ calls'[Len(calls')].handler = mw
    /\ calls'[Len(calls')].fault = NoPanic

\* the requests answered by a registered handler
DirectHits ==
    { r \in ServeRequests : r.uri # << "*" >> /\ Handler(router, r).kind = "handler" }

\* the node n is in the tree after the step as it was before, but for the
\* middleware mw appended to its list
PreservedWith(n, mw) ==
    /\ n \in NodesAt(NodeAbsPath(n))'
    /\ nodes'[n] = [nodes[n] EXCEPT !.mws = Append(nodes[n].mws, mw)]

HasMiddleware(n, mw) == mw \in { nodes[n].mws[k] : k \in 1..Len(nodes[n].mws) }

\* C24: a call Router.Use(path, mw) appends mw to the middlewares of the node
\* at the path: when the node is in the tree already it stays there with its
\* other middlewares, its entries and its children, else one node is created
\* for it; and every request that was answered by a registered handler before
\* the call gets the same answer after it.
C24_UseAppendsPreserves ==
    [][\A path \in UsePaths, mw \in 1..MaxCalls :
           IsUsePathStep(path, mw)
               => /\ \A n \in NodesAt(parseNamespaceName(path)) : PreservedWith(n, mw)
                  /\ (\E n \in NodesAt(parseNamespaceName(path)) : HasMiddleware(n, mw))'
                  /\ \A r \in DirectHits : Handler(router, r) = Handler(router, r)']_vars

\* ------------------------------------------------------------------------
\* the words of the claims about namespace handles
\* ------------------------------------------------------------------------

IsRouterRegistration(k) == calls[k].op = "register" /\ Returned_(k)

IsHandleRegistration(k) == calls[k].op \in {"hregister", "hregisterHandler"} /\ Returned_(k)

Registered == { k \in Calls : IsRouterRegistration(k) \/ IsHandleRegistration(k) }

\* the pattern a registration is for: on a handle, the names the handle was
\* created with, then the sub-pattern
PatternOf(k) ==
    IF calls[k].on = 0 THEN calls[k].pattern
    ELSE Slash \o handles[calls[k].on].abs \o calls[k].pattern

\* the path that instantiates a pattern with the value "v" for every parameter
ParamValue == << "v" >>

InstanceSegments(ps) ==
    [k \in 1..Len(ps) |-> IF IsParamSegment(ps[k]) THEN ParamValue ELSE ps[k]]

InstanceOf(pattern) == Join(InstanceSegments(Split(pattern, "/")), "/")

RequestOf(pattern) ==
    [method |-> MethodGet, host |-> << "o", ".", "c" >>, path |-> InstanceOf(pattern),
     query |-> << >>]

\* no registration of another slot has a pattern the path instantiates
Unrivalled(k) ==
    \A l \in Registered :
        Instantiates(InstanceOf(PatternOf(k)), PatternOf(l))
            => SameSlot(PatternOf(l), PatternOf(k))

\* the answer a GET for the instance of the pattern of registration k is
\* claimed to get
HitFor(k) ==
    [NoHit EXCEPT !.kind = "handler", !.h = calls[k].handler, !.p = PatternOf(k),
                  !.params = [name \in ParamNames(PatternOf(k)) |-> ParamValue],
                  !.nilparams = FALSE]

OnRootHandle(k) == calls[k].on # 0 /\ handles[calls[k].on].parent = 0

\* C25: a registration H.Get(s, h), H.Get("/", h) or H.Get(h) that returned,
\* on a handle H = Router.Namespace(n), registers h for "/"+n+s, "/"+n+"/" or
\* "/"+n: a GET whose path instantiates that pattern (and no pattern of
\* another slot) returns h, the pattern and the parameters of n and s under
\* their names.
C25_HandleRegistration ==
    \A k \in Calls :
        (IsHandleRegistration(k) /\ OnRootHandle(k) /\ Unrivalled(k))
            => Handler(router, RequestOf(PatternOf(k))) = HitFor(k)

\* the call a step records
LastCall == calls'[Len(calls')]
IsCallStep == Len(calls') = Len(calls) + 1

\* a step H.Get(s, h) or H.Get(h) with a valid sub-pattern s and a handler h
IsHandleGetStep ==
    /\ IsCallStep
    /\ LastCall.op \in {"hregister", "hregisterHandler"}
    /\ LastCall.handler # NilHandler
    /\ IF LastCall.op = "hregisterHandler" THEN LastCall.pattern = << >>
       ELSE isValidPattern(LastCall.pattern)

\* the step leaves the router, and raises the fault, that Router.Get(pattern, h)
\* leaves and raises from the same router
AsRouterGet(pattern) ==
    register(router, pattern, LastCall.handler, LastCall.method)
        = [ro |-> router', fault |-> LastCall.fault]

\* C25: on a handle H = Router.Namespace(n), H.Get(s, h), H.Get("/", h) and
\* H.Get(h) behave as Router.Get("/"+n+s, h), Router.Get("/"+n+"/", h) and
\* Router.Get("/"+n, h): from the same router they leave the same router and
\* raise the same fault.
C25_AsRouterRegistration ==
    [][(IsHandleGetStep /\ handles[LastCall.on].parent = 0)
          => AsRouterGet(Slash \o handles[LastCall.on].abs \o LastCall.pattern)]_vars

\* C26: on a sub-handle S = H.Namespace(m) of H = Router.Namespace(n), a
\* registration S.Get(s, h) resolves relative to the absolute path n/m: it
\* behaves as Router.Get("/"+n+"/"+m+s, h), so the stored pattern carries the
\* parameters of n, m and s under their names.
C26_SubHandleAbsolutePath ==
    [][(IsHandleGetStep /\ handles[LastCall.on].parent # 0)
          => AsRouterGet(Slash \o handles[LastCall.on].abs \o LastCall.pattern)]_vars

\* the entries a router holds, each as its pattern and expression
EntriesIn(ro) ==
    { [pattern |-> ro.nodes[n].es.pattern, re |-> ro.nodes[n].es.re] :
          n \in { m \in DOMAIN ro.nodes : ~ro.nodes[m].es.nil } }
    \cup { [pattern |-> ro.nodes[n].eu.pattern, re |-> ro.nodes[n].eu.re] :
          n \in { m \in DOMAIN ro.nodes : ~ro.nodes[m].eu.nil } }

\* what hd.Get(s, h) yields from the router ro: its fault and the entry it adds
Yield(ro, out) == [fault |-> out.fault, added |-> EntriesIn(out.ro) \ EntriesIn(ro)]
GetYields(ro, hd, s) == Yield(ro, namespace_register(ro, hd, s, MaxCalls, MethodGet))

\* the sub-patterns a handle registration accepts
ValidSubPatterns == { s \in SubPatterns : isValidPattern(s) }

\* a step H.Namespace(m) that returned the sub-handle
IsSubHandleStep ==
    /\ IsCallStep
    /\ LastCall.op = "subnamespace"
    /\ LastCall.fault = NoPanic

\* C27: H.Namespace(m) leaves the parent handle H as it was: the parameter
\* names H remembers and the node H refers to are unchanged, and H.Get(s, h)
\* after the call yields what it yielded before the call (the same fault, the
\* same pattern and expression stored).
C27_ParentHandleUnchanged ==
    [][IsSubHandleStep =>
          /\ handles'[LastCall.on].params = handles[LastCall.on].params
          /\ handles'[LastCall.on].n = handles[LastCall.on].n
          /\ \A s \in ValidSubPatterns :
                 GetYields(router', handles'[LastCall.on], s)
                     = GetYields(router, handles[LastCall.on], s)]_vars

\* s occurs in p
Occurs(p, s) ==
    \E k \in 1..(Len(p) - Len(s) + 1) : SubSeq(p, k, k + Len(s) - 1) = s

\* the patterns the claim names: empty, with an empty segment, with an
\* unnamed parameter
IsNamedInvalid(p) ==
    p = << >> \/ Occurs(p, << "/", "/" >>) \/ Occurs(p, Brackets)

\* the calls of a registration, on the router or on a handle, by their form
GivesPattern(k) == calls[k].op \in {"register", "hregister", "hregisterPattern"}
GivesHandler(k) == calls[k].op \in {"register", "hregister", "hregisterHandler"}

\* C28: a registration, on the router or on a handle, given a handler and an
\* empty pattern, a pattern with "//" or a pattern with "{}" panics with
\* PanicMsgInvalidPattern; given a nil handler (and no such pattern) it panics
\* with PanicMsgEmptyHandler; on a handle, given a sub-pattern and no handler
\* it panics with PanicMsgMissingHandler.
C28_PatternValidation ==
    \A k \in Calls :
        /\ (GivesPattern(k) /\ GivesHandler(k) /\ IsNamedInvalid(calls[k].pattern))
               => calls[k].fault = PanicMsgInvalidPattern
        /\ (GivesHandler(k) /\ calls[k].handler = NilHandler
                /\ (GivesPattern(k) => ~IsNamedInvalid(calls[k].pattern)))
               => calls[k].fault = PanicMsgEmptyHandler
        /\ (calls[k].op = "hregisterPattern" /\ calls[k].pattern # << >>)
               => calls[k].fault = PanicMsgMissingHandler

\* the first segment of the name is a parameter
FirstSegmentIsParam(name) ==
    /\ Len(name) > 0
    /\ Len(Split(name, "/")[1]) >= 2
    /\ Split(name, "/")[1][1] = "{"
    /\ Split(name, "/")[1][Len(Split(name, "/")[1])] = "}"

\* the names the claim rejects
IsNamedInvalidNamespace(name) ==
    \/ HasPrefix(name, Slash)
    \/ Occurs(name, Brackets)
    \/ FirstSegmentIsParam(name)

IsNamespaceCall(k) == calls[k].op \in {"namespace", "subnamespace"}

\* C29: Namespace(name), on the router and on a handle, panics with
\* PanicMsgInvalidNamespace when name starts with "/", contains "{}" or has a
\* parameter as its first segment, and returns a handle for every other name
\* of the namespace syntax.
C29_NamespaceValidation ==
    \A k \in Calls :
        IsNamespaceCall(k) =>
            IF IsNamedInvalidNamespace(calls[k].pattern)
            THEN calls[k].fault = PanicMsgInvalidNamespace
            ELSE calls[k].fault = NoPanic

\* ------------------------------------------------------------------------
\* the words of the claim about the lock
\* ------------------------------------------------------------------------

\* the serving goroutine reads f while the registering goroutine writes it
Overlap == serveReads(goroutines.at) \cap goroutines.writing

\* C30: every registration writes router state only while it holds the write
\* lock, and every read of router state made while serving (the namespace
\* maps, the root entry, the method maps, the middleware lists, the host flag,
\* the error handler) is made while the read lock is held, so that no serving
\* read overlaps a write of a registration.
C30_LockDiscipline ==
    /\ goroutines.writing # {} => mu.writer
    /\ serveReads(goroutines.at) # {} => mu.readers > 0
    /\ Overlap = {}

\* C30, first part: the router changes only in steps taken under the write lock
C30_WritesUnderLock ==
    [][(<< ns, nodes, e, host, mws, meh >>' # << ns, nodes, e, host, mws, meh >>)
          => mu.writer]_vars

\* C30, conclusion alone: no read of a serving goroutine overlaps a write
C30_NoOverlap == Overlap = {}

\* ------------------------------------------------------------------------
\* the words of the claims about the namespace tree
\* ------------------------------------------------------------------------

\* the calls that returned, all of them inserting a name
AllReturned == \A k \in Calls : Returned_(k)

\* the normalized name call k inserts, and the handle it inserts it below
InsertedName(k) == parseNamespaceName(calls[k].pattern)
InsertedNames == [k \in Calls |-> InsertedName(k)]
InsertedBelow == [k \in Calls |-> calls[k].on]

\* below the map there is one chain of nodes with these keys and nothing else
RECURSIVE IsChain(_, _)
IsChain(map, keys) ==
    IF keys = << >> THEN DOMAIN map = {}
    ELSE /\ DOMAIN map = {keys[1]}
         /\ IsChain(nodes[map[keys[1]]].ns, Tail(keys))

\* the node at the end of the chain
RECURSIVE ChainEnd(_, _)
ChainEnd(map, keys) ==
    IF Len(keys) = 1 THEN map[keys[1]]
    ELSE ChainEnd(nodes[map[keys[1]]].ns, Tail(keys))

\* what the first call put on the node it inserted: nothing, an entry or a
\* middleware
HoldsFirstCall(n) ==
    /\ calls[1].op \in {"register", "hregister"} =>
           /\ ~nodes[n].eu.nil
           /\ nodes[n].eu.pattern = calls[1].pattern
           /\ nodes[n].eu.re = createRegExp(calls[1].pattern)
           /\ nodes[n].eu.mh = (MethodGet :> calls[1].handler)
           /\ nodes[n].es.nil
           /\ nodes[n].mws = << >>
    /\ calls[1].op = "nsuse" =>
           /\ nodes[n].mws = << calls[1].handler >>
           /\ nodes[n].eu.nil /\ nodes[n].es.nil
    /\ calls[1].op = "namespace" =>
           /\ nodes[n].mws = << >>
           /\ nodes[n].eu.nil /\ nodes[n].es.nil

NameA == << "a" >>
NameAB == << "a", "/", "b" >>
NameABC == << "a", "/", "b", "/", "c" >>
NameB == << "b" >>
NameC == << "c" >>
NameBC == << "b", "/", "c" >>

SplitOnce ==
    /\ AllReturned
    /\ InsertedNames = << NameABC, NameA >>
    /\ InsertedBelow = << 0, 0 >>

SplitTwice ==
    /\ AllReturned
    /\ InsertedNames = << NameABC, NameA, NameAB >>
    /\ InsertedBelow = << 0, 0, 0 >>

SplitBelowHandle ==
    /\ AllReturned
    /\ InsertedNames = << NameA, NameBC, NameB >>
    /\ InsertedBelow = << 0, 1, 1 >>

IsNamespaceStep ==
    /\ IsCallStep
    /\ LastCall.op = "namespace"
    /\ LastCall.fault = NoPanic

\* the handles Router.Namespace returned before for the normalized name
HandlesOf(name) ==
    { j \in 1..Len(handles) :
          /\ handles[j].parent = 0
          /\ parseNamespaceName(handles[j].abs) = parseNamespaceName(name) }

\* C32: a later insertion of a normalized name x returns the node the first
\* insertion of x returned and leaves the tree (nodes, keys, parents, entries,
\* middlewares) as it was, whatever was inserted before x.
C32_IdempotentInsertion ==
    [][\A name \in TreeNames :
          (IsNamespaceStep /\ LastCall.pattern = name /\ HandlesOf(name) # {})
              => /\ \A j \in HandlesOf(name) : handles'[Len(handles')].n = handles[j].n
                 /\ nodes' = nodes
                 /\ ns' = ns]_vars

\* the child maps of the tree: the root map and the map of every node of it
ChildMaps == {ns} \cup { nodes[n].ns : n \in { m \in DOMAIN nodes : Attached(m) } }

\* k is a segment-prefix of l: l is k, a slash and a rest
SegmentPrefix(k, l) == HasPrefix(l, k \o Slash)

\* C33: after any registrations and insertions, in every child map no key is
\* a segment-prefix of another key (k and k+"/"+rest are never siblings).
C33_SiblingInvariant ==
    \A map \in ChildMaps : \A k, l \in DOMAIN map : ~SegmentPrefix(k, l)

\* every child of the map is named by its key and has the owner as parent
KeysNameChildren(map, owner) ==
    \A k \in DOMAIN map : nodes[map[k]].name = k /\ nodes[map[k]].p = owner

C34_KeysAndParents ==
    /\ KeysNameChildren(ns, NilNode)
    /\ \A n \in DOMAIN nodes : Attached(n) => KeysNameChildren(nodes[n].ns, n)

\* the node of every handle has, through the parent pointers, the absolute
\* path the handle was asked for
C34_ReturnedPath ==
    \A j \in 1..Len(handles) :
        NodeAbsPath(handles[j].n) = parseNamespaceName(handles[j].abs)

\* C34: every child stored under key k has name k and the owner of the map as
\* parent, and the node returned by inserting x below a node of absolute path
\* P has the absolute path P+"/"+x through the parent pointers.
C34_NodePathConsistency == C34_KeysAndParents /\ C34_ReturnedPath

\* the cleaned path of r (after its host for a host pattern) does not match q
Unmatched(r, q) == ~Instantiates(RequestText(r, q), q)

\* the GET requests on one host, without a query
PlainRequests ==
    { r \in Requests : r.method = MethodGet /\ r.query = << >>
                          /\ r.host = << "o", ".", "c" >> }

\* the router after the first k calls, all of them registrations on a new
\* router
RECURSIVE RouterAfter(_)
RouterAfter(k) ==
    IF k = 0 THEN [ns |-> EmptyMap, nodes |-> << >>, e |-> NilEntry, host |-> FALSE]
    ELSE register(RouterAfter(k - 1), calls[k].pattern, calls[k].handler,
                  calls[k].method).ro

OnlyRegistrations == \A k \in Calls : calls[k].op = "register"

\* the answer to r is a registered handler before call k and the same after it
KeepsHit(r, before, after) ==
    IsHit(Handler(before, r)) => Handler(after, r) = Handler(before, r)

\* C35: when a request is a direct hit, registering a pattern q that the
\* cleaned path of the request does not match leaves the request a direct hit
\* with the same handler, pattern and params.
C35_RegistrationMonotonicity ==
    OnlyRegistrations =>
        \A k \in Calls : \A r \in PlainRequests :
            Unmatched(r, calls[k].pattern)
                => KeepsHit(r, RouterAfter(k - 1), RouterAfter(k))

\* ------------------------------------------------------------------------
\* registration calls that panic
\* ------------------------------------------------------------------------

\* one text given as a pattern with and without the leading slash:
\* parseNamespace gives both the same name, and only the second is a pattern
\* with a host
DottedPatterns ==
    { << "/", "s", ".", "c" >>,
      << "s", ".", "c" >> }

\* the calls of the handles and of the router, and the dotted patterns
NextFailed ==
    \/ NextHandles
    \/ \E pattern \in DottedPatterns : Register(pattern, Len(calls) + 1, MethodGet)

SpecFailed == Init /\ [][NextFailed]_vars

\* the panics of a registration call that C36 names
RegistrationPanics ==
    { PanicMsgInvalidPattern, PanicMsgEmptyHandler, PanicMsgMissingHandler,
      PanicMsgInvalidNamespace, PanicMsgEndpointDuplication }

\* a step that is a call which panicked with one of them
IsFailedCallStep == IsCallStep /\ LastCall.fault \in RegistrationPanics

\* C36: a registration call that panics with invalid-pattern, nil-handler,
\* missing-handler, invalid-namespace or endpoint-duplication leaves the
\* namespace tree, the entries with their handler maps, the root entry, the
\* host flag and the middleware lists as they were before the call
C36_FailedRegistrationNoEffect ==
    [][IsFailedCallStep =>
           << ns, nodes, e, host, mws >>' = << ns, nodes, e, host, mws >>]_vars

\* the same without the host flag
C36_TreeAndEntriesKept ==
    [][IsFailedCallStep => << ns, nodes, e, mws >>' = << ns, nodes, e, mws >>]_vars

\* ------------------------------------------------------------------------
\* C37
\* ------------------------------------------------------------------------

\* call k returned and registered handler h for pattern p under method
RegisteredAs(k, p, h, method) ==
    /\ Returned_(k)
    /\ calls[k].pattern = p
    /\ calls[k].handler = h
    /\ calls[k].method = method

\* some returned call registered a handler for pattern p under method
HasRegistration(p, method) ==
    \E k \in Calls : Returned_(k) /\ calls[k].pattern = p /\ calls[k].method = method

\* h is the handler registered for p under the method of the request or, when
\* p has none for it, under ALL
RegisteredHandlerOf(p, h, method) ==
    \/ \E k \in Calls : RegisteredAs(k, p, h, method)
    \/ /\ ~HasRegistration(p, method)
       /\ \E k \in Calls : RegisteredAs(k, p, h, MethodAll)

\* the text of the request matches the pattern returned, segment by segment
C37_PathMatchesPattern ==
    \A r \in Requests :
        IsHit(Handler(router, r)) =>
            Instantiates(RequestText(r, Handler(router, r).p), Handler(router, r).p)

\* C37: whenever Handler returns a registered handler h with pattern p, the
\* cleaned path of the request (after the port-stripped host when p starts
\* with a host) matches p segment by segment, and h is the handler registered
\* for p under the method of the request or, failing that, under ALL
C37_MatchSoundness ==
    \A r \in Requests :
        IsHit(Handler(router, r)) =>
            /\ Instantiates(RequestText(r, Handler(router, r).p), Handler(router, r).p)
            /\ RegisteredHandlerOf(Handler(router, r).p, Handler(router, r).h, r.method)

\* ------------------------------------------------------------------------
\* requests that are redirected or make the lookup panic, and C38
\* ------------------------------------------------------------------------

\* paths that Router.Handler answers with a redirect when "/a" is registered:
\* one with a slash too many at the end, one that cleanPath changes
RedirectedPaths ==
    { << "/", "a", "/" >>,
      << "/", "/", "a" >> }

RedirectedRequests ==
    { [method |-> MethodGet, host |-> << "o", ".", "c" >>, path |-> path,
       query |-> << >>, uri |-> path] : path \in RedirectedPaths }

\* a pattern with a host and a parameter, and a request for it
HostParamPatterns == { << "s", ".", "c", "/", "{", "i", "}" >> }

HostRequests ==
    { [method |-> MethodGet, host |-> << "s", ".", "c" >>, path |-> << "/", "a" >>,
       query |-> << >>, uri |-> << "/", "a" >>] }

NextCover ==
    \/ NextServe
    \/ \E pattern \in HostParamPatterns : Register(pattern, Len(calls) + 1, MethodGet)
    \/ \E r \in RedirectedRequests \cup HostRequests, c \in BOOLEAN : ServeHTTP(r, c)

SpecCover == Init /\ [][NextCover]_vars

\* the middlewares of the router
GlobalIds == { mws[k] : k \in 1..Len(mws) }

\* how many of the middlewares invoked are the router's
GlobalInvoked == Cardinality({ k \in 1..Len(Invoked) : Invoked[k].id \in GlobalIds })

\* ServeHTTP is over, by a return or a panic, for a request whose RequestURI
\* is not "*"
Dispatched == sv.pc \in {"done", "panicked"} /\ sv.r.uri # << "*" >>

\* the router's middlewares invoked are the first middlewares invoked, in
\* registration order, and the last of them is the last of the router, or
\* did not call next(), or was followed by the end of the context
GlobalsRan ==
    /\ GlobalInvoked <= Len(mws)
    /\ \A k \in 1..GlobalInvoked : Invoked[k].id = mws[k]
    /\ \/ GlobalInvoked = Len(mws)
       \/ sv.cancelled
       \/ GlobalInvoked > 0 /\ Invoked[GlobalInvoked].does # DoesNext

\* the response is the last event, after every middleware invoked
ResponseLast ==
    sv.pc = "done" =>
        /\ Len(sv.log) = Len(Invoked) + 1
        /\ sv.log[Len(sv.log)].ev # "mw"

\* the middleware is one of a node the pattern passes through
AlongPattern(p, mw) ==
    \E n \in DOMAIN nodes :
        /\ PassesThrough(p, n)
        /\ \E k \in 1..Len(nodes[n].mws) : nodes[n].mws[k] = mw

\* the middlewares of namespaces invoked are of nodes along the pattern
\* returned, and there is none when the request was answered not-found
NamespaceMwsAlong ==
    \A k \in 1..Len(Invoked) :
        Invoked[k].id \notin GlobalIds =>
            /\ sv.res.kind # "notfound"
            /\ AlongPattern(sv.res.p, Invoked[k].id)

\* the claim for the calls in which Router.Handler returned
C38_WhenHandlerReturns ==
    (Dispatched /\ sv.res.kind # "panic")
        => (GlobalsRan /\ ResponseLast /\ NamespaceMwsAlong)

\* C38: when ServeHTTP is over for a request that is not the "*" URI, the
\* middlewares of the router were invoked first and in registration order,
\* all of them unless one did not call next() or the context ended, and
\* before the response, also when the request was answered not-found or with
\* a redirect; and the middlewares of namespaces invoked belong to nodes
\* along the pattern returned (the target for a redirect), none for not-found
C38_GlobalCoverage == Dispatched => (GlobalsRan /\ ResponseLast /\ NamespaceMwsAlong)

\* ------------------------------------------------------------------------
\* a middleware that calls next after Intercept returned, and C39
\* ------------------------------------------------------------------------

\* lines 306-325 run after line 328: the callback sets *proceed, which the
\* loop read once when Intercept returned and does not read again, and with
\* an error it appends to errs; nothing is sent to iCh.  The append is not
\* ordered with the reads of errs by the goroutine of ServeHTTP: seen tells
\* whether that goroutine gets to see the error.
calledLater(s, mw, does, seen) ==
    [s EXCEPT !.log = Append(s.log, Event("late", mw, does, IF seen THEN mw ELSE 0)),
              !.errs = IF does = DoesErr /\ seen THEN Append(s.errs, mw) ELSE s.errs]

\* the middleware invoked last returned from Intercept without calling next,
\* the call waits at the select, and the work the middleware started calls
\* next() or next(err) now
LateNext(does, seen) ==
    /\ sv.pc = "select"
    /\ ~sv.token
    /\ Len(sv.log) > 0
    /\ sv.log[Len(sv.log)].ev = "mw"
    /\ sv.log[Len(sv.log)].does = DoesHalt
    /\ does = DoesNext => ~seen
    /\ sv' = calledLater(sv, sv.log[Len(sv.log)].id, does, seen)
    /\ UNCHANGED << ns, nodes, e, host, calls, mws, meh, handles, mu, goroutines >>

NextAsync ==
    \/ NextServe
    \/ \E does \in {DoesNext, DoesErr}, seen \in BOOLEAN : LateNext(does, seen)

SpecAsync == Init /\ [][NextAsync]_vars

\* the goroutine of ServeHTTP runs as in FairServe; nothing makes a
\* middleware call next later, and nothing makes a client cancel
FairAsync ==
    /\ SpecAsync
    /\ WF_vars(\E does \in Does : Intercept(does))
    /\ WF_vars(LayerEnd)
    /\ WF_vars(CtxDone)

\* the places in the log where next was called after Intercept returned
LateCalls(does) ==
    { k \in 1..Len(sv.log) : sv.log[k].ev = "late" /\ sv.log[k].does = does }

\* after a late next() the next middleware or the handler was invoked
ProceededAfterLate ==
    \E k \in LateCalls(DoesNext) :
        \E j \in (k + 1)..Len(sv.log) : sv.log[j].ev \in {"mw", "handler"}

\* after a late next(err) the error was surfaced and the handler was not invoked
SurfacedAfterLate ==
    /\ ~HandlerInvoked
    /\ \E k \in LateCalls(DoesErr) :
           \E j \in (k + 1)..Len(sv.log) :
               sv.log[j].ev \in {"meh", "status500"} /\ sv.log[j].err = sv.log[k].id

\* C39: when a middleware returned from Intercept and calls next() later, the
\* next middleware or the handler is invoked then, and when it calls
\* next(err) later, err is surfaced and the handler is not invoked, unless
\* the context of the request ends
C39_AsyncContinuation ==
    /\ (LateCalls(DoesNext) # {}) ~> (ProceededAfterLate \/ sv.cancelled)
    /\ (LateCalls(DoesErr) # {}) ~> (SurfacedAfterLate \/ sv.cancelled)

\* as long as the context of the request is not done, a call in which next
\* was called late is where it was: still waiting at the select
C39_LateCallWaits ==
    (LateCalls(DoesNext) \cup LateCalls(DoesErr) # {} /\ ~sv.cancelled)
        => (sv.pc = "select" /\ ~sv.token /\ sv.log[Len(sv.log)].ev = "late")
====
